---- MODULE Spec2Model ----
(***************************************************************************)
(* A model of the rendez-vous channel (src/src/rtos/channel.rs), of the    *)
(* select! construct (src/src/macros/select.rs) and of the sleep-deadline  *)
(* algebra GenericSleep (src/src/rtos/mod.rs, src/src/rtos.rs).            *)
(*                                                                         *)
(* Spec      : sender and receiver tasks, each running select! over one    *)
(*             channel event, interleaved at the granularity of the        *)
(*             critical sections of the channel's data mutex.              *)
(* FairSpec  : Spec with the kernel scheduling every runnable task.        *)
(* SelSpec   : one task running select! over several branches (timer,      *)
(*             channel receive, select_either of both) against a clock     *)
(*             and the senders of the branches' channels.                  *)
(* FairSelSpec : SelSpec with the select! task scheduled and time passing. *)
(* SleepSpec : GenericSleep::sleep of both source files against the       *)
(*             kernel's clock and task notifications.                      *)
(* MutexSpec, FairMutexSpec : tasks locking, polling and releasing one     *)
(*             Mutex (src/src/rtos/mutex.rs).                              *)
(* InstantSpec : the arithmetic of Instant (src/src/rtos/mod.rs).          *)
(* CtxSpec   : ContextWrapper::replace (src/src/robot.rs) over a tree of   *)
(*             contexts.                                                   *)
(* BcSpec    : one Broadcast with its listeners.                           *)
(* TimedSpec : Spec with receivers that also poll without a notification. *)
(* PromiseSpec : one Promise, fulfilled and waited on.                     *)
(* CreateSpec : try_channel / channel against the kernel's memory.         *)
(* EitherSpec : select_either / select_any! over inner events.             *)
(* MapSpec   : select_map over an inner event.                             *)
(* QueueSpec : one task calling a Queue (src/src/rtos/queue.rs) against    *)
(*             the kernel's queue, its clock and the other tasks.          *)
(* LoopSpec  : one task polling the events of a Loop (src/src/rtos.rs)     *)
(*             against the kernel's clock.                                 *)
(***************************************************************************)
EXTENDS Integers, Sequences, FiniteSets, TLC

(* ------------------------------------------------------------------ *)
(* Bounds of the model                                                  *)
(* ------------------------------------------------------------------ *)

\* values each sender task sends, one select! per value
MaxSends == 1
\* select! rounds each receiver task runs
MaxRounds == 1
\* the kernel's per-task notification counter saturates here in the model
\* (only zero / non-zero is ever read: select! ignores sleep's result)
NotifyCap == 1

\* lock / try_lock / poll calls each task makes on the Mutex
MaxCalls == 2
\* width in bits of the model's u32 (Instant's milliseconds)
InstantBits == 10
\* contexts created in all, by replace and by new_child
MaxCtx == 3
\* signals sent on the Broadcast
MaxSignals == 3
\* calls of Promise::fulfill
MaxFulfill == 2
\* kernel objects the kernel's memory has room for
HeapSlots == 3
\* calls of try_channel / channel the creating task makes
MaxCreate == 3
\* polls of the combined event
MaxAttempts == 2
\* slots of the Queue
QueueLen == 2
\* latest instant of the clock the Queue's callers see, in milliseconds
MaxQTime == 2
\* Queue operations the calling task makes
MaxQCalls == 2
\* width of the u32 fields of Loop and of the clock, in bits
LoopBits == 4
\* polls of the events of one Loop
MaxLoopPolls == 4
\* latest instant of the clock, in milliseconds
MaxTime == 1
\* branches of the select! of SelSpec
NumBranches == 2
Branches == 1 .. NumBranches

\* sender tasks and receiver tasks (kernel tasks, all distinct)
Senders == {1, 2}
Receivers == {3, 4}
Tasks == Senders \cup Receivers

\* Option::None for the channel's value cell and for a mutex without holder
None == 0

\* the distinct value sender s sends in its k-th select!
ValueOf(s, k) == s * 10 + k
SenderOf(v) == v \div 10

VARIABLES
    value,      \* ChannelData.value : None or the pending value
    seq,        \* ChannelData.seq : the parity bit
    recvEvent,  \* ChannelData.receive_event : registered tasks
    sendEvent,  \* ChannelData.send_event : registered tasks
    ackSem,     \* ChannelShared.ack_sem : count of the semaphore
    sendMutex,  \* ChannelShared.send_mutex : None or the holding task
    notif,      \* kernel notification counter of every task
    pc,         \* position of every task in its select! / poll
    need,       \* SendSelect::poll : acknowledgments still to wait for
    rseq,       \* ReceiveSelect.seq of the task's live continuation
    hdone,      \* ReceiveSelect.handle.is_done()
    sidx,       \* number of values the sender task has sent with success
    rounds,     \* number of select! the receiver task has started
    lastRes,    \* result of the sender's last finished poll
    taker,      \* history: the receiver that took the sender's latest publish
    okSends,    \* history: values whose send poll returned Ok, in order
    received,   \* history: <<receiver, value>> of every successful receive poll
    now,        \* time_since_start(), in milliseconds
    sl,         \* Selectable::sleep of every branch of the select!
    flag,       \* a value is pending in the channel of a receive branch
    selpc,      \* position of the select! task
    slp,        \* the combined descriptor the select! sleeps on
    k,          \* position in the poll pass of select_match!
    chosen,     \* the branch whose poll succeeded, or None
    snotif,     \* kernel notification counter of the select! task
    ran,        \* how often each branch body has run
    passRes,    \* poll results of the current pass
    steady,     \* history: readiness seen so far (at entry, ever, this pass)
    millis,     \* bindings::millis() seen by the sleeping task
    gs,         \* the GenericSleep that sleep() was called on
    simpl,      \* which GenericSleep::sleep runs: rtos/mod.rs or rtos.rs
    spc,        \* position of the sleeping task
    scall,      \* the clock when sleep() was called
    until,      \* the instant the kernel call times out, or NoInstant
    tnotif,     \* kernel notification counter of the sleeping task
    staken,     \* history: notifications cleared by task_notify_take
    sret,       \* the value sleep() returned
    sback,      \* the clock when sleep() returned
    mholder,    \* kernel mutex: None or the task holding it
    mcount,     \* kernel mutex: recursion count of the holder
    mguards,    \* live MutexGuard objects of every task
    mpc,        \* position of every task using the Mutex
    macq,       \* history: successful acquisitions of every task
    mrel,       \* history: successful mutex_recursive_give of every task
    mcalls,     \* lock / try_lock / poll calls of every task
    mlast,      \* what the task's latest call was and returned
    iself,      \* Instant arithmetic: the Instant operated on (or secs)
    idur,       \* the Duration operand, in half milliseconds
    irhs,       \* the Instant or scalar operand
    iop,        \* the operation applied, "none" before
    ires,       \* its result: a number, None, or "panic"
    cslot,      \* ContextWrapper: the Option<Context> behind its Mutex
    wholder,    \* ContextWrapper: None or the task holding its Mutex
    cparent,    \* per context: -1 not created, None for a global one, or the parent
    ccanc,      \* the contexts whose cancelled flag is set
    ctodo,      \* per task: children its running cancel() has still to cancel
    cwait,      \* contexts with a pending done() event registered
    cwoken,     \* contexts whose pending done() event was notified
    rpc,        \* position of every task in ContextWrapper::replace
    rold,       \* replace: the context taken out of the slot
    rnew,       \* replace: the context created
    creturned,  \* history: the contexts replace has returned
    bgen,       \* Broadcast: the generation counter
    blocal,     \* per listener: the generation it last observed
    blast,      \* per listener: what its latest poll returned
    bgot,       \* history: successful polls of every listener
    bmissed,    \* history: signals since the listener's latest poll
    pvalue,     \* Promise: None or the stored value
    pful,       \* history: <<value, result>> of every fulfill call, in order
    preg,       \* Promise: the tasks registered for the fulfilment
    ppc,        \* position of every task waiting on the Promise
    pearly,     \* history: the task's wait() was called before the fulfilment
    pseen,      \* the value the task's wait resolved with
    kheap,      \* kernel memory: objects that can still be created
    kother,     \* kernel objects held by the other tasks
    klive,      \* the channel's kernel objects that exist
    kpc,        \* position of the task creating the channel
    kstep,      \* the creation try_channel is at (1, 2, 3)
    kvia,       \* the constructor called: "try_channel" or "channel"
    kcalls,     \* constructor calls made
    kfailat,    \* history: the creation that failed in the latest call, or None
    kchan,      \* the ChannelShared built: << >> or one record
    eshape,     \* the combined event: "either" (two events) or "any" (three)
    eready,     \* per inner event: its poll would succeed
    esl,        \* per inner event: its sleep descriptor
    erdy,       \* history: eready at the latest poll of the combined event
    eres,       \* what the latest poll of the combined event did and returned
    eattempts,  \* polls of the combined event so far
    etaken,     \* history: per inner event, how often its poll succeeded
    esleep,     \* the sleep descriptor of the combined event, once asked for
    minner,     \* select_map: the inner event: [ready, val, sl]
    mfn,        \* select_map: the closure f held by the mapped event
    mlive,      \* the mapped event exists (not yet consumed by a poll)
    mres,       \* what the latest poll of the mapped event returned
    mfcalls,    \* history: calls of f
    mpolls,     \* polls of the mapped event so far
    msleep,     \* the sleep descriptor the mapped event gave, once asked for
    qitems,     \* kernel queue: its elements, front first
    qclock,     \* kernel clock in milliseconds
    qpc,        \* position of the task calling the Queue
    qop,        \* the operation called
    qitem,      \* the item passed to append / prepend
    qT,         \* the timeout passed, a Duration in milliseconds
    qstart,     \* the clock at the call
    qwait,      \* the timeout the kernel was given, in milliseconds
    qres,       \* what the latest operation returned
    qcalls,     \* operations called so far
    last_time,  \* Loop: the start of the current period, a u32 of milliseconds
    delta,      \* Loop: the period, a u32 of milliseconds
    lmillis,    \* Loop: the kernel's clock, bindings::millis()
    llive,      \* the Loop exists
    lchecks,    \* the build checks integer overflow (debug) or wraps (release)
    lev,        \* a LoopSelect made by Loop::next is held
    lres,       \* what the latest poll of the LoopSelect returned, if it returned
    lsleep,     \* the deadline of the latest sleep descriptor, if one was made
    lstart,     \* history: the clock when the Loop was made
    lsucc,      \* history: polls that succeeded
    lpolls,     \* history: polls
    lobs,       \* history: last_time and the clock as the latest poll found them
    lpanic      \* the task panicked on an integer overflow

chanVars == << value, seq, recvEvent, sendEvent, ackSem, sendMutex, notif, pc,
               need, rseq, hdone, sidx, rounds, lastRes, taker, okSends, received >>
selVars == << now, sl, flag, selpc, slp, k, chosen, snotif, ran, passRes, steady >>
sleepVars == << millis, gs, simpl, spc, scall, until, tnotif, staken, sret, sback >>
mtxVars == << mholder, mcount, mguards, mpc, macq, mrel, mcalls, mlast >>
instVars == << iself, idur, irhs, iop, ires >>
ctxVars == << cslot, wholder, cparent, ccanc, ctodo, cwait, cwoken, rpc, rold, rnew, creturned >>
bcVars == << bgen, blocal, blast, bgot, bmissed >>
prVars == << pvalue, pful, preg, ppc, pearly, pseen >>
newVars == << kheap, kother, klive, kpc, kstep, kvia, kcalls, kfailat, kchan >>
eiVars == << eshape, eready, esl, erdy, eres, eattempts, etaken, esleep >>
mapVars == << minner, mfn, mlive, mres, mfcalls, mpolls, msleep >>
qVars == << qitems, qclock, qpc, qop, qitem, qT, qstart, qwait, qres, qcalls >>
loopVars == << last_time, delta, lmillis, llive, lchecks, lev, lres, lsleep, lstart, lsucc, lpolls, lobs, lpanic >>
vars == << chanVars, selVars, sleepVars, mtxVars, instVars, ctxVars, bcVars, prVars, newVars, eiVars, mapVars, qVars, loopVars >>
\* what the tasks of each part of the model leave alone
notChanVars == << selVars, sleepVars, mtxVars, instVars, ctxVars, bcVars, prVars, newVars, eiVars, mapVars, qVars, loopVars >>
notSelVars == << chanVars, sleepVars, mtxVars, instVars, ctxVars, bcVars, prVars, newVars, eiVars, mapVars, qVars, loopVars >>
notSleepVars == << chanVars, selVars, mtxVars, instVars, ctxVars, bcVars, prVars, newVars, eiVars, mapVars, qVars, loopVars >>
notMtxVars == << chanVars, selVars, sleepVars, instVars, ctxVars, bcVars, prVars, newVars, eiVars, mapVars, qVars, loopVars >>
notCtxVars == << chanVars, selVars, sleepVars, mtxVars, instVars, bcVars, prVars, newVars, eiVars, mapVars, qVars, loopVars >>
notBcVars == << chanVars, selVars, sleepVars, mtxVars, instVars, ctxVars, prVars, newVars, eiVars, mapVars, qVars, loopVars >>
notPrVars == << chanVars, selVars, sleepVars, mtxVars, instVars, ctxVars, bcVars, newVars, eiVars, mapVars, qVars, loopVars >>
notNewVars == << chanVars, selVars, sleepVars, mtxVars, instVars, ctxVars, bcVars, prVars, eiVars, mapVars, qVars, loopVars >>
notEiVars == << chanVars, selVars, sleepVars, mtxVars, instVars, ctxVars, bcVars, prVars, newVars, mapVars, qVars, loopVars >>
notMapVars == << chanVars, selVars, sleepVars, mtxVars, instVars, ctxVars, bcVars, prVars, newVars, eiVars, qVars, loopVars >>
notQVars == << chanVars, selVars, sleepVars, mtxVars, instVars, ctxVars, bcVars, prVars, newVars, eiVars, mapVars, loopVars >>
notLoopVars == << chanVars, selVars, sleepVars, mtxVars, instVars, ctxVars, bcVars, prVars, newVars, eiVars, mapVars, qVars >>
notInstVars == << chanVars, selVars, sleepVars, mtxVars, ctxVars, bcVars, prVars, newVars, eiVars, mapVars, qVars, loopVars >>

(* ------------------------------------------------------------------ *)
(* Event / EventHandle / Semaphore / kernel notification                *)
(* ------------------------------------------------------------------ *)

Min(a, b) == IF a <= b THEN a ELSE b

\* handle_event: adds the current task to the registry (idempotent)
handle_event(ev, t) == ev \cup {t}

\* EventHandle::clear / drop: removes the task; double removal is a no-op
handle_clear(ev, t) == ev \ {t}

\* Event::task_count
task_count(ev) == Cardinality(ev)

\* mutant: every task is notified, registered or not
notify_all(ev) ==
    [t \in Tasks |-> Min(notif[t] + 1, NotifyCap)]

\* Event::notify: one notification for every registered task, registry kept
notify(ev) ==
    [t \in Tasks |-> IF t \in ev THEN Min(notif[t] + 1, NotifyCap) ELSE notif[t]]

\* task_notify_take(true, _): returns once the counter is non-zero, clearing it
notify_take(t) == [notif EXCEPT ![t] = 0]

(* ------------------------------------------------------------------ *)
(* Initial state: try_channel()                                         *)
(* ------------------------------------------------------------------ *)

ChanInit ==
    /\ value = None
    /\ seq = FALSE
    /\ recvEvent = {}
    /\ sendEvent = {}
    /\ ackSem = 0
    /\ sendMutex = None
    /\ notif = [t \in Tasks |-> 0]
    /\ pc = [t \in Tasks |-> "idle"]
    /\ need = [s \in Senders |-> 0]
    /\ rseq = [r \in Receivers |-> FALSE]
    /\ hdone = [r \in Receivers |-> TRUE]
    /\ sidx = [s \in Senders |-> 0]
    /\ rounds = [r \in Receivers |-> 0]
    /\ lastRes = [s \in Senders |-> [kind |-> "none", val |-> None]]
    /\ taker = [s \in Senders |-> None]
    /\ okSends = << >>
    /\ received = << >>

chanData == << value, seq, recvEvent, sendEvent >>
hist == << taker, okSends, received >>
recvLocal == << rseq, hdone, rounds >>
sendLocal == << need, sidx, lastRes >>

(* ------------------------------------------------------------------ *)
(* Sender task: select! { _ = send.select(v) => () }                    *)
(* ------------------------------------------------------------------ *)

\* SendChannel::select: builds the continuation, registering on send_event
SendChannel_select(s) ==
    /\ pc[s] = "idle"
    /\ sidx[s] < MaxSends
    /\ sendEvent' = handle_event(sendEvent, s)
    /\ pc' = [pc EXCEPT ![s] = "sleep"]
    /\ UNCHANGED << value, seq, recvEvent, ackSem, sendMutex, notif,
                    sendLocal, recvLocal, hist, notChanVars >>

\* SendSelect::sleep: NotifyTake(None) when no receiver is registered,
\* otherwise a descriptor that does not wait
SendSleepIsNotifyTake == task_count(recvEvent) = 0

\* select!: evaluates the branch's sleep descriptor at the top of the loop
SendSelect_sleep(s) ==
    /\ pc[s] = "sleep"
    /\ pc' = [pc EXCEPT ![s] = IF SendSleepIsNotifyTake THEN "wait" ELSE "poll"]
    /\ UNCHANGED << chanData, ackSem, sendMutex, notif, sendLocal, recvLocal, hist, notChanVars >>

\* GenericSleep::sleep on NotifyTake(None): blocks until notified
SendSleep_wake(s) ==
    /\ pc[s] = "wait"
    /\ notif[s] > 0
    /\ notif' = notify_take(s)
    /\ pc' = [pc EXCEPT ![s] = "poll"]
    /\ UNCHANGED << chanData, ackSem, sendMutex, sendLocal, recvLocal, hist, notChanVars >>

\* mutant: the send mutex is not taken
SendMutexFree_always(s) == TRUE

\* the send mutex can be taken by s (recursive kernel mutex)
SendMutexFree(s) == sendMutex = None \/ sendMutex = s

\* SendSelect::poll, line 31: blocks until the send mutex is obtained
SendPoll_lock(s) ==
    /\ pc[s] = "poll"
    /\ SendMutexFree(s)
    /\ sendMutex' = s
    /\ pc' = [pc EXCEPT ![s] = "assert"]
    /\ UNCHANGED << chanData, ackSem, notif, sendLocal, recvLocal, hist, notChanVars >>

\* SendSelect::poll, line 33: assert_eq!(ack_sem.count(), 0)
SendPoll_assert(s) ==
    /\ pc[s] = "assert"
    /\ pc' = [pc EXCEPT ![s] = IF ackSem = 0 THEN "publish" ELSE "panic"]
    /\ UNCHANGED << chanData, ackSem, sendMutex, notif, sendLocal, recvLocal, hist, notChanVars >>

\* mutant: the notification empties the registry before it is counted
SendPoll_publish_clearing(s) ==
    /\ pc[s] = "publish"
    /\ value' = ValueOf(s, sidx[s] + 1)
    /\ seq' = ~seq
    /\ notif' = notify(recvEvent)
    /\ recvEvent' = {}
    /\ need' = [need EXCEPT ![s] = 0]
    /\ taker' = [taker EXCEPT ![s] = None]
    /\ pc' = [pc EXCEPT ![s] = "ackwait"]
    /\ UNCHANGED << sendEvent, ackSem, sendMutex, sidx, lastRes,
                    recvLocal, okSends, received, notChanVars >>

\* SendSelect::poll, lines 35-41: store, flip parity, notify, count
SendPoll_publish(s) ==
    /\ pc[s] = "publish"
    /\ value' = ValueOf(s, sidx[s] + 1)
    /\ seq' = ~seq
    /\ notif' = notify(recvEvent)
    /\ need' = [need EXCEPT ![s] = task_count(recvEvent)]
    /\ taker' = [taker EXCEPT ![s] = None]
    /\ pc' = [pc EXCEPT ![s] = "ackwait"]
    /\ UNCHANGED << recvEvent, sendEvent, ackSem, sendMutex, sidx, lastRes,
                    recvLocal, okSends, received, notChanVars >>

\* SendSelect::poll, lines 44-50: one ack_sem.wait per notified receiver
SendPoll_ackwait(s) ==
    /\ pc[s] = "ackwait"
    /\ need[s] > 0
    /\ ackSem > 0
    /\ ackSem' = ackSem - 1
    /\ need' = [need EXCEPT ![s] = need[s] - 1]
    /\ UNCHANGED << chanData, sendMutex, notif, pc, sidx, lastRes, recvLocal, hist, notChanVars >>

\* mutant: the final check never finds the value
Remains_never == FALSE

\* SendSelect::poll, line 53: the published value is still in the cell
Remains == value # None

\* mutant: the final check looks at the value and leaves it in the cell
SendPoll_check_leaving(s) ==
    /\ pc[s] = "ackwait"
    /\ need[s] = 0
    /\ sendMutex' = None
    /\ lastRes' = [lastRes EXCEPT ![s] = [kind |-> IF Remains THEN "err" ELSE "ok", val |-> value]]
    /\ pc' = [pc EXCEPT ![s] = IF Remains THEN "sleep" ELSE "sent"]
    /\ okSends' = IF Remains THEN okSends ELSE Append(okSends, ValueOf(s, sidx[s] + 1))
    /\ UNCHANGED << value, seq, recvEvent, sendEvent, ackSem, notif, need, sidx,
                    recvLocal, taker, received, notChanVars >>

\* SendSelect::poll, lines 52-61: take the value back if it remains;
\* the send mutex guard is released on return
SendPoll_check(s) ==
    /\ pc[s] = "ackwait"
    /\ need[s] = 0
    /\ value' = None
    /\ sendMutex' = None
    /\ IF Remains
       THEN /\ lastRes' = [lastRes EXCEPT ![s] = [kind |-> "err", val |-> value]]
            /\ pc' = [pc EXCEPT ![s] = "sleep"]
            /\ UNCHANGED << okSends >>
       ELSE /\ lastRes' = [lastRes EXCEPT ![s] = [kind |-> "ok", val |-> None]]
            /\ pc' = [pc EXCEPT ![s] = "sent"]
            /\ okSends' = Append(okSends, ValueOf(s, sidx[s] + 1))
    /\ UNCHANGED << seq, recvEvent, sendEvent, ackSem, notif, need, sidx,
                    recvLocal, taker, received, notChanVars >>

\* end of a successful poll: the continuation's EventHandle is dropped,
\* the select! leaves its loop and runs the branch body
SendSelect_done(s) ==
    /\ pc[s] = "sent"
    /\ sendEvent' = handle_clear(sendEvent, s)
    /\ sidx' = [sidx EXCEPT ![s] = sidx[s] + 1]
    /\ pc' = [pc EXCEPT ![s] = "idle"]
    /\ UNCHANGED << value, seq, recvEvent, ackSem, sendMutex, notif, need,
                    lastRes, recvLocal, hist, notChanVars >>

(* ------------------------------------------------------------------ *)
(* Receiver task: select! { x = receive.select() => ..., [other] }      *)
(* ------------------------------------------------------------------ *)

\* ReceiveChannel::select: under the data lock, registers on receive_event
\* and records the current parity
ReceiveChannel_select(r) ==
    /\ pc[r] = "idle"
    /\ rounds[r] < MaxRounds
    /\ recvEvent' = handle_event(recvEvent, r)
    /\ rseq' = [rseq EXCEPT ![r] = seq]
    /\ hdone' = [hdone EXCEPT ![r] = FALSE]
    /\ rounds' = [rounds EXCEPT ![r] = rounds[r] + 1]
    /\ pc' = [pc EXCEPT ![r] = "sleep"]
    /\ UNCHANGED << value, seq, sendEvent, ackSem, sendMutex, notif, sendLocal, hist, notChanVars >>

\* mutant: the notified receiver resumes only once the send mutex is free
RecvSleep_wake_locked(r) ==
    /\ pc[r] = "sleep"
    /\ notif[r] > 0
    /\ sendMutex = None
    /\ notif' = notify_take(r)
    /\ pc' = [pc EXCEPT ![r] = "poll"]
    /\ UNCHANGED << chanData, ackSem, sendMutex, sendLocal, recvLocal, hist, notChanVars >>

\* select!: ReceiveSelect::sleep is NotifyTake(None); GenericSleep::sleep
\* blocks until the task is notified
RecvSleep_wake(r) ==
    /\ pc[r] = "sleep"
    /\ notif[r] > 0
    /\ notif' = notify_take(r)
    /\ pc' = [pc EXCEPT ![r] = "poll"]
    /\ UNCHANGED << chanData, ackSem, sendMutex, sendLocal, recvLocal, hist, notChanVars >>

\* select!: the deadline of another branch of the same select! elapses, the
\* sleep returns without a notification and the poll pass reaches the
\* receive branch
RecvSleep_timeout(r) ==
    /\ pc[r] = "sleep"
    /\ pc' = [pc EXCEPT ![r] = "poll"]
    /\ UNCHANGED << chanData, ackSem, sendMutex, notif, sendLocal, recvLocal, hist, notChanVars >>

\* mutant: every poll posts an acknowledgment
PollOwesAck_always(r) == TRUE

\* ReceiveSelect::poll, line 107: an acknowledgment is owed for a publish
\* the continuation has not yet looked at
PollOwesAck(r) == rseq[r] # seq

\* mutant: the value is read and left in the cell
ValueAfterTake_peek == value

\* ReceiveSelect::poll, line 113: value.take() leaves None in the cell
ValueAfterTake == None

\* mutant: a successful poll leaves the task in the receive registry
RecvPollSection_registered(r) ==
    /\ ackSem' = IF PollOwesAck(r) THEN ackSem + 1 ELSE ackSem
    /\ rseq' = [rseq EXCEPT ![r] = seq]
    /\ IF value # None
       THEN /\ value' = ValueAfterTake
            /\ hdone' = [hdone EXCEPT ![r] = TRUE]
            /\ received' = Append(received, << r, value >>)
            /\ taker' = [taker EXCEPT ![SenderOf(value)] = r]
            /\ pc' = [pc EXCEPT ![r] = "got"]
            /\ UNCHANGED << notif, recvEvent >>
       ELSE /\ notif' = notify(sendEvent)
            /\ pc' = [pc EXCEPT ![r] = "sleep"]
            /\ UNCHANGED << value, recvEvent, hdone, received, taker >>
    /\ UNCHANGED << seq, sendEvent, sendMutex, sendLocal, rounds, okSends, notChanVars >>

\* ReceiveSelect::poll, lines 105-119: one critical section of the data mutex
RecvPollSection(r) ==
    /\ ackSem' = IF PollOwesAck(r) THEN ackSem + 1 ELSE ackSem
    /\ rseq' = [rseq EXCEPT ![r] = seq]
    /\ IF value # None
       THEN /\ value' = ValueAfterTake
            /\ recvEvent' = handle_clear(recvEvent, r)
            /\ hdone' = [hdone EXCEPT ![r] = TRUE]
            /\ received' = Append(received, << r, value >>)
            /\ taker' = [taker EXCEPT ![SenderOf(value)] = r]
            /\ pc' = [pc EXCEPT ![r] = "got"]
            /\ UNCHANGED << notif >>
       ELSE /\ notif' = notify(sendEvent)
            /\ pc' = [pc EXCEPT ![r] = "sleep"]
            /\ UNCHANGED << value, recvEvent, hdone, received, taker >>
    /\ UNCHANGED << seq, sendEvent, sendMutex, sendLocal, rounds, okSends, notChanVars >>

\* mutant: the poll waits for a value instead of returning the continuation
ReceiveSelect_poll_blocking(r) ==
    /\ pc[r] = "poll"
    /\ value # None
    /\ RecvPollSection(r)

\* ReceiveSelect::poll: runs to completion once the task is in it
ReceiveSelect_poll(r) ==
    /\ pc[r] = "poll"
    /\ RecvPollSection(r)

\* mutant: the destructor posts whether or not a poll already did
DropOwesAck_always(r) == TRUE

\* mutant: the destructor never posts
DropOwesAck_never(r) == FALSE

\* ReceiveSelect::drop, line 133: the acknowledgment is owed when the parity
\* differs and the registration has not resolved
DropOwesAck(r) == rseq[r] # seq /\ ~hdone[r]

\* mutant: the destructor posts what is owed and leaves the registration
ReceiveSelect_drop_registered(r) ==
    /\ ackSem' = IF DropOwesAck(r) THEN ackSem + 1 ELSE ackSem
    /\ hdone' = [hdone EXCEPT ![r] = TRUE]
    /\ pc' = [pc EXCEPT ![r] = "idle"]
    /\ UNCHANGED << value, seq, recvEvent, sendEvent, sendMutex, notif, sendLocal,
                    rseq, rounds, hist, notChanVars >>

\* ReceiveSelect::drop: one critical section of the data mutex
ReceiveSelect_drop(r) ==
    /\ ackSem' = IF DropOwesAck(r) THEN ackSem + 1 ELSE ackSem
    /\ recvEvent' = handle_clear(recvEvent, r)
    /\ hdone' = [hdone EXCEPT ![r] = TRUE]
    /\ pc' = [pc EXCEPT ![r] = "idle"]
    /\ UNCHANGED << value, seq, sendEvent, sendMutex, notif, sendLocal,
                    rseq, rounds, hist, notChanVars >>

\* end of a successful poll: the consumed continuation is dropped
RecvSelect_done(r) ==
    /\ pc[r] = "got"
    /\ ReceiveSelect_drop(r)

\* another branch of the same select! fires (a timer, a cancellation): the
\* receive continuation is dropped before it ever polled to success
RecvSelect_abandon(r) ==
    /\ pc[r] \in {"sleep", "poll"}
    /\ ReceiveSelect_drop(r)

(* ------------------------------------------------------------------ *)
(* GenericSleep: the sleep-deadline algebra                             *)
(* ------------------------------------------------------------------ *)

\* Option::None of an Option<Instant>
NoInstant == -1
Instants == 0 .. MaxTime

NotifyTake(d) == [tag |-> "NotifyTake", d |-> d]
Timestamp(d) == [tag |-> "Timestamp", d |-> d]
GenericSleeps ==
    { NotifyTake(d) : d \in Instants \cup {NoInstant} } \cup { Timestamp(d) : d \in Instants }

\* mutant: only a NotifyTake carries an instant
timeout_notify_only(a) == IF a.tag = "NotifyTake" THEN a.d ELSE NoInstant

\* GenericSleep::timeout: the instant of either variant, if present
timeout(a) == a.d

\* mutant: the first deadline wins whenever it is present
combine_first(a, b) ==
    IF a.tag = "Timestamp" /\ b.tag = "Timestamp" THEN Timestamp(Min(a.d, b.d))
    ELSE NotifyTake(IF timeout(a) = NoInstant THEN timeout(b) ELSE timeout(a))

\* GenericSleep::combine
combine(a, b) ==
    IF a.tag = "Timestamp" /\ b.tag = "Timestamp" THEN Timestamp(Min(a.d, b.d))
    ELSE NotifyTake(IF timeout(a) = NoInstant THEN timeout(b)
                    ELSE IF timeout(b) = NoInstant THEN timeout(a)
                    ELSE Min(timeout(a), timeout(b)))

\* BitOr for GenericSleep, the earlier spelling of combine
bitor(a, rhs) ==
    IF a.tag = "Timestamp" /\ rhs.tag = "Timestamp" THEN Timestamp(Min(a.d, rhs.d))
    ELSE NotifyTake(IF timeout(a) = NoInstant THEN timeout(rhs)
                    ELSE IF timeout(rhs) = NoInstant THEN timeout(a)
                    ELSE Min(timeout(a), timeout(rhs)))

\* mutant: a deadline that has passed does not end the sleep
SleepReturns_notify_only(g) == g.tag = "NotifyTake" /\ snotif > 0

\* GenericSleep::sleep returns: a NotifyTake once a notification is there or
\* its deadline is reached, a Timestamp once its deadline is reached
SleepReturns(g) ==
    \/ g.tag = "NotifyTake" /\ snotif > 0
    \/ g.d # NoInstant /\ now >= g.d

(* ------------------------------------------------------------------ *)
(* select! over NumBranches events                                      *)
(* ------------------------------------------------------------------ *)

\* the event of a branch, by its sleep descriptor:
\*   Timestamp(d)         LoopSelect, d = last_time + delta
\*   NotifyTake(None)     ReceiveSelect
\*   NotifyTake(Some(d))  select_either(ReceiveSelect, LoopSelect)
HasReceive(i) == sl[i].tag = "NotifyTake"

\* Context::done().sleep(): the earliest time a poll could succeed, which for
\* a cancelled context is no later than now; a notification otherwise
done_sleep(cancelled) == IF cancelled THEN NotifyTake(0) ELSE NotifyTake(NoInstant)

\* LoopSelect::poll succeeds at or past its deadline, ReceiveSelect::poll
\* when a value is pending, EitherSelect::poll when one of the two does
PollSucceeds(i) ==
    \/ HasReceive(i) /\ flag[i]
    \/ sl[i].d # NoInstant /\ now >= sl[i].d

\* select_sleep!: the branches' descriptors combined from the right
RECURSIVE select_sleep(_)
select_sleep(i) ==
    IF i = NumBranches THEN sl[i] ELSE combine(sl[i], select_sleep(i + 1))

\* mutant: the pass polls the branches from the right
PollOrder_reversed(n) == NumBranches + 1 - n

\* select_match!: the n-th poll of a pass polls the n-th branch as written
PollOrder(n) == n

Steady(entry, ever, pass) == [entry |-> entry, ever |-> ever, pass |-> pass]
ReadyNow == [i \in Branches |-> PollSucceeds(i)]

SelOff ==
    /\ now = 0
    /\ sl = [i \in Branches |-> Timestamp(0)]
    /\ flag = [i \in Branches |-> FALSE]
    /\ selpc = "off"
    /\ slp = Timestamp(0)
    /\ k = 0
    /\ chosen = None
    /\ snotif = 0
    /\ ran = [i \in Branches |-> 0]
    /\ passRes = [i \in Branches |-> "none"]
    /\ steady = Steady({}, {}, {})

\* select_head!: one continuation per branch; a receive branch may find a
\* value already published in its channel, and the task may carry a
\* notification from before
SelInit ==
    /\ now = 0
    /\ sl \in [Branches -> GenericSleeps]
    /\ flag \in [Branches -> BOOLEAN]
    /\ \A i \in Branches : flag[i] => HasReceive(i)
    /\ selpc = "loop"
    /\ slp = Timestamp(0)
    /\ k = 0
    /\ chosen = None
    /\ snotif \in 0 .. NotifyCap
    /\ ran = [i \in Branches |-> 0]
    /\ passRes = [i \in Branches |-> "none"]
    /\ steady = Steady({ i \in Branches : PollSucceeds(i) },
                       { i \in Branches : PollSucceeds(i) }, {})

\* history: which branches were ready at entry and have stayed so, which
\* have ever been ready, and which changed readiness during the poll pass
Observe(rdy) ==
    steady' = Steady({ i \in steady.entry : rdy[i] },
                     steady.ever \cup { i \in Branches : rdy[i] },
                     IF selpc \in {"match", "body"}
                     THEN steady.pass \cup { i \in Branches : rdy[i] # ReadyNow[i] }
                     ELSE steady.pass)

\* the clock advances
Tick ==
    /\ now < MaxTime
    /\ now' = now + 1
    /\ Observe([i \in Branches |->
                   \/ HasReceive(i) /\ flag[i]
                   \/ sl[i].d # NoInstant /\ now + 1 >= sl[i].d])
    /\ UNCHANGED << notSelVars, sl, flag, selpc, slp, k, chosen, snotif, ran, passRes >>

\* SendSelect::poll, lines 35-41, on the channel of branch i: the value is
\* stored and the registered receive continuation's task is notified
BranchPublish(i) ==
    /\ selpc \in {"loop", "wait", "match"}
    /\ HasReceive(i)
    /\ ~flag[i]
    /\ flag' = [flag EXCEPT ![i] = TRUE]
    /\ snotif' = Min(snotif + 1, NotifyCap)
    /\ Observe([ReadyNow EXCEPT ![i] = TRUE])
    /\ UNCHANGED << notSelVars, now, sl, selpc, slp, k, chosen, ran, passRes >>

\* SendSelect::poll, lines 52-61, on the channel of branch i: the sender
\* takes the value back
BranchReclaim(i) ==
    /\ selpc \in {"loop", "wait", "match"}
    /\ flag[i]
    /\ flag' = [flag EXCEPT ![i] = FALSE]
    /\ Observe([ReadyNow EXCEPT ![i] = sl[i].d # NoInstant /\ now >= sl[i].d])
    /\ UNCHANGED << notSelVars, now, sl, selpc, slp, k, chosen, snotif, ran, passRes >>

\* select!, line 31: the combined descriptor is computed, then slept on
Select_sleep ==
    /\ selpc = "loop"
    /\ slp' = select_sleep(1)
    /\ selpc' = "wait"
    /\ UNCHANGED << notSelVars, now, sl, flag, k, chosen, snotif, ran, passRes, steady >>

\* GenericSleep::sleep returns; task_notify_take clears the counter
GenericSleep_sleep ==
    /\ selpc = "wait"
    /\ SleepReturns(slp)
    /\ snotif' = IF slp.tag = "NotifyTake" THEN 0 ELSE snotif
    /\ selpc' = "match"
    /\ k' = 1
    /\ passRes' = [i \in Branches |-> "none"]
    /\ steady' = [steady EXCEPT !.pass = {}]
    /\ UNCHANGED << notSelVars, now, sl, flag, slp, chosen, ran >>

\* mutant: the pass goes on polling after a poll has succeeded
Select_match_continuing ==
    /\ selpc = "match"
    /\ LET i == PollOrder(k) IN
         IF PollSucceeds(i)
         THEN /\ passRes' = [passRes EXCEPT ![i] = "ok"]
              /\ chosen' = i
              /\ flag' = [flag EXCEPT ![i] = FALSE]
              /\ selpc' = IF k = NumBranches THEN "body" ELSE "match"
              /\ k' = IF k = NumBranches THEN k ELSE k + 1
         ELSE /\ passRes' = [passRes EXCEPT ![i] = "fail"]
              /\ selpc' = IF k < NumBranches THEN "match"
                          ELSE IF chosen # None THEN "body" ELSE "loop"
              /\ k' = IF k = NumBranches THEN 0 ELSE k + 1
              /\ UNCHANGED << chosen, flag >>
    /\ UNCHANGED << notSelVars, now, sl, slp, snotif, ran, steady >>

\* select_match!: one poll of the pass; the first Ok breaks out of the loop
Select_match ==
    /\ selpc = "match"
    /\ LET i == PollOrder(k) IN
         IF PollSucceeds(i)
         THEN /\ passRes' = [passRes EXCEPT ![i] = "ok"]
              /\ chosen' = i
              /\ flag' = [flag EXCEPT ![i] = FALSE]
              /\ selpc' = "body"
              /\ UNCHANGED k
         ELSE /\ passRes' = [passRes EXCEPT ![i] = "fail"]
              /\ selpc' = IF k = NumBranches THEN "loop" ELSE "match"
              /\ k' = IF k = NumBranches THEN 0 ELSE k + 1
              /\ UNCHANGED << chosen, flag >>
    /\ UNCHANGED << notSelVars, now, sl, slp, snotif, ran, steady >>

\* select_body!: the body of the branch that matched runs
Select_body ==
    /\ selpc = "body"
    /\ ran' = [ran EXCEPT ![chosen] = ran[chosen] + 1]
    /\ selpc' = "done"
    /\ UNCHANGED << notSelVars, now, sl, flag, slp, k, chosen, snotif, passRes, steady >>

(* ------------------------------------------------------------------ *)
(* GenericSleep::sleep against the kernel                               *)
(* ------------------------------------------------------------------ *)

\* TIMEOUT_MAX (0xffffffff), the timeout task_notify_take takes as "wait
\* without limit": the call then has no instant at which it times out
TIMEOUT_MAX == NoInstant

\* Option::None of an Option<Duration>
NoDuration == -1

\* Instant::checked_sub_instant: None when the result would be negative
checked_sub_instant(a, rhs) == IF a >= rhs THEN a - rhs ELSE NoDuration

\* Duration - Duration of core::time: panics when the result would be
\* negative; NoDuration stands for the panic
duration_sub(a, rhs) == IF a >= rhs THEN a - rhs ELSE NoDuration

SleepOff ==
    /\ millis = 0
    /\ gs = Timestamp(0)
    /\ simpl = "mod"
    /\ spc = "off"
    /\ scall = 0
    /\ until = NoInstant
    /\ tnotif = 0
    /\ staken = 0
    /\ sret = 0
    /\ sback = 0

\* bindings::millis() advances
SleepTick ==
    /\ spc # "off"
    /\ millis < MaxTime
    /\ millis' = millis + 1
    /\ UNCHANGED << gs, simpl, spc, scall, until, tnotif, staken, sret, sback, notSleepVars >>

\* another task notifies the sleeping task
SleepNotify ==
    /\ spc \in {"ready", "notifywait", "delay"}
    /\ tnotif < NotifyCap
    /\ tnotif' = tnotif + 1
    /\ UNCHANGED << millis, gs, simpl, spc, scall, until, staken, sret, sback, notSleepVars >>

\* GenericSleep::sleep of rtos/mod.rs, up to its kernel call
sleep ==
    /\ spc = "ready"
    /\ simpl = "mod"
    /\ scall' = millis
    /\ LET d == IF gs.d = NoInstant THEN NoDuration
                ELSE checked_sub_instant(gs.d, millis) IN
         IF gs.tag = "NotifyTake"
         THEN /\ spc' = "notifywait"
              /\ until' = IF gs.d = NoInstant THEN TIMEOUT_MAX
                          ELSE millis + (IF d = NoDuration THEN 0 ELSE d)
              /\ UNCHANGED << sret, sback >>
         ELSE IF d # NoDuration
              THEN /\ spc' = "delay"
                   /\ until' = millis + d
                   /\ UNCHANGED << sret, sback >>
              ELSE /\ spc' = "returned"
                   /\ sret' = 0
                   /\ sback' = millis
                   /\ UNCHANGED until
    /\ UNCHANGED << millis, gs, simpl, tnotif, staken, notSleepVars >>

\* GenericSleep::sleep of rtos.rs, up to its kernel call
sleep_rtos ==
    /\ spc = "ready"
    /\ simpl = "rtos"
    /\ scall' = millis
    /\ LET d == IF gs.d = NoInstant THEN NoDuration ELSE duration_sub(millis, gs.d) IN
         IF gs.tag = "NotifyTake" /\ gs.d = NoInstant
         THEN /\ spc' = "notifywait"
              /\ until' = TIMEOUT_MAX
         ELSE IF d = NoDuration
              THEN /\ spc' = "panicked"
                   /\ UNCHANGED until
              ELSE /\ spc' = IF gs.tag = "NotifyTake" THEN "notifywait" ELSE "delay"
                   /\ until' = millis + d
    /\ UNCHANGED << millis, gs, simpl, tnotif, staken, sret, sback, notSleepVars >>

\* task_notify_take(true, timeout) returns: a notification is there, or the
\* timeout has run out; the counter is returned and cleared
task_notify_take ==
    /\ spc = "notifywait"
    /\ tnotif > 0 \/ (until # TIMEOUT_MAX /\ millis >= until)
    /\ sret' = tnotif
    /\ staken' = tnotif
    /\ tnotif' = 0
    /\ sback' = millis
    /\ spc' = "returned"
    /\ UNCHANGED << millis, gs, simpl, scall, until, notSleepVars >>

\* task_delay(d) returns after d milliseconds; sleep() then returns 0
task_delay ==
    /\ spc = "delay"
    /\ millis >= until
    /\ sret' = 0
    /\ sback' = millis
    /\ spc' = "returned"
    /\ UNCHANGED << millis, gs, simpl, scall, until, tnotif, staken, notSleepVars >>

(* ------------------------------------------------------------------ *)
(* Mutex / MutexGuard over the kernel's recursive mutex                 *)
(* ------------------------------------------------------------------ *)

\* the tasks sharing one Mutex
MutexTasks == {1, 2}

\* Mutex::try_new: mutex_recursive_create gives a free mutex
MutexInit ==
    /\ mholder = None
    /\ mcount = 0
    /\ mguards = [t \in MutexTasks |-> 0]
    /\ mpc = [t \in MutexTasks |-> "run"]
    /\ macq = [t \in MutexTasks |-> 0]
    /\ mrel = [t \in MutexTasks |-> 0]
    /\ mcalls = [t \in MutexTasks |-> 0]
    /\ mlast = [t \in MutexTasks |-> "none"]

\* mutant: the kernel lets any task take the mutex
mutex_available_always(t) == TRUE

\* mutex_recursive_take succeeds at once: the mutex is free or the caller
\* holds it already
mutex_available(t) == mholder \in {None, t}

\* mutex_recursive_take returned true; the caller wraps it in a MutexGuard
MutexTaken(t, how) ==
    /\ mholder' = t
    /\ mcount' = mcount + 1
    /\ mguards' = [mguards EXCEPT ![t] = @ + 1]
    /\ macq' = [macq EXCEPT ![t] = @ + 1]
    /\ mlast' = [mlast EXCEPT ![t] = how]
    /\ mpc' = [mpc EXCEPT ![t] = "run"]

\* Mutex::lock / Mutex::try_lock: mutex_recursive_take(mutex, TIMEOUT_MAX)
Mutex_try_lock(t) ==
    /\ mpc[t] = "run"
    /\ mcalls[t] < MaxCalls
    /\ mcalls' = [mcalls EXCEPT ![t] = @ + 1]
    /\ IF mutex_available(t)
       THEN MutexTaken(t, "lock")
       ELSE /\ mpc' = [mpc EXCEPT ![t] = "take"]
            /\ mlast' = [mlast EXCEPT ![t] = "lock"]
            /\ UNCHANGED << mholder, mcount, mguards, macq >>
    /\ UNCHANGED << mrel, notMtxVars >>

\* the blocked mutex_recursive_take returns once the mutex is free
Mutex_take_return(t) ==
    /\ mpc[t] = "take"
    /\ mutex_available(t)
    /\ MutexTaken(t, mlast[t])
    /\ UNCHANGED << mrel, mcalls, notMtxVars >>

\* mutant: poll takes the mutex with TIMEOUT_MAX
Mutex_poll_blocking(t) ==
    /\ mpc[t] = "run"
    /\ mcalls[t] < MaxCalls
    /\ mcalls' = [mcalls EXCEPT ![t] = @ + 1]
    /\ IF mutex_available(t)
       THEN MutexTaken(t, "poll_some")
       ELSE /\ mpc' = [mpc EXCEPT ![t] = "take"]
            /\ mlast' = [mlast EXCEPT ![t] = "poll_some"]
            /\ UNCHANGED << mholder, mcount, mguards, macq >>
    /\ UNCHANGED << mrel, notMtxVars >>

\* Mutex::poll: mutex_recursive_take(mutex, 0)
Mutex_poll(t) ==
    /\ mpc[t] = "run"
    /\ mcalls[t] < MaxCalls
    /\ mcalls' = [mcalls EXCEPT ![t] = @ + 1]
    /\ IF mutex_available(t)
       THEN MutexTaken(t, "poll_some")
       ELSE /\ mlast' = [mlast EXCEPT ![t] = "poll_none"]
            /\ UNCHANGED << mholder, mcount, mguards, macq, mpc >>
    /\ UNCHANGED << mrel, notMtxVars >>

\* mutant: dropping a guard leaves the kernel mutex as it is
mutex_give_forgotten(c) == c

\* mutex_recursive_give: the recursion count of the holder after the give
mutex_give(c) == c - 1

\* MutexGuard::drop, of a guard going out of scope while the task runs or
\* while it leaves its function: mutex_recursive_give, which the kernel
\* rejects when the caller does not hold the mutex; the guard panics then
MutexGuard_drop(t) ==
    /\ mpc[t] \in {"run", "exit"}
    /\ mguards[t] > 0
    /\ mguards' = [mguards EXCEPT ![t] = @ - 1]
    /\ IF mholder = t
       THEN /\ mcount' = mutex_give(mcount)
            /\ mholder' = IF mutex_give(mcount) = 0 THEN None ELSE t
            /\ mrel' = [mrel EXCEPT ![t] = @ + 1]
            /\ UNCHANGED mpc
       ELSE /\ mpc' = [mpc EXCEPT ![t] = "panicked"]
            /\ UNCHANGED << mholder, mcount, mrel >>
    /\ UNCHANGED << macq, mcalls, mlast, notMtxVars >>

\* the task leaves the function that owns its guards, by return, by an
\* early return or by a propagated failure: the guards still alive are
\* dropped on the way out
Mutex_exit(t) ==
    /\ mpc[t] = "run"
    /\ mpc' = [mpc EXCEPT ![t] = "exit"]
    /\ UNCHANGED << mholder, mcount, mguards, macq, mrel, mcalls, mlast, notMtxVars >>

(* ------------------------------------------------------------------ *)
(* Instant arithmetic                                                   *)
(* ------------------------------------------------------------------ *)

\* u32::MAX
U32Max == 2 ^ InstantBits - 1

\* mutant: a value out of range wraps
u32_wrapping(x) == x % (U32Max + 1)

\* u32::checked_add / checked_sub / checked_mul and u32::try_from(..).ok()
\* on the exact result x: None when x is no u32
u32_checked(x) == IF x \in 0 .. U32Max THEN x ELSE NoInstant

\* Duration::as_millis: whole milliseconds of a duration of h half
\* milliseconds, as u128
as_millis(h) == h \div 2

\* Instant::checked_add
checked_add(a, rhs) ==
    IF u32_checked(as_millis(rhs)) = NoInstant THEN NoInstant
    ELSE u32_checked(a + u32_checked(as_millis(rhs)))

\* Instant::checked_sub
checked_sub(a, rhs) ==
    IF u32_checked(as_millis(rhs)) = NoInstant THEN NoInstant
    ELSE u32_checked(a - u32_checked(as_millis(rhs)))

\* Instant::checked_mul
checked_mul(a, rhs) == u32_checked(a * rhs)

\* Option::expect of the operators and of from_secs
expect(x) == IF x = NoInstant THEN "panic" ELSE x

\* the operations: the checked functions, the operators built on them, and
\* from_secs, which multiplies its seconds by 1000
InstantOps ==
    {"checked_add", "checked_sub", "checked_sub_instant", "checked_mul",
     "add", "sub", "sub_instant", "mul", "from_secs"}
InstantEval(op) ==
    CASE op = "checked_add" -> checked_add(iself, idur)
      [] op = "checked_sub" -> checked_sub(iself, idur)
      [] op = "checked_sub_instant" -> checked_sub_instant(iself, irhs)
      [] op = "checked_mul" -> checked_mul(iself, irhs)
      [] op = "add" -> expect(checked_add(iself, idur))
      [] op = "sub" -> expect(checked_sub(iself, idur))
      [] op = "sub_instant" -> expect(checked_sub_instant(iself, irhs))
      [] op = "mul" -> expect(checked_mul(iself, irhs))
      [] op = "from_secs" -> expect(u32_checked(iself * 1000))

Instant_apply ==
    /\ iop = "none"
    /\ \E op \in InstantOps : iop' = op /\ ires' = InstantEval(op)
    /\ UNCHANGED << iself, idur, irhs, notInstVars >>

(* ------------------------------------------------------------------ *)
(* Context and ContextWrapper::replace                                  *)
(* ------------------------------------------------------------------ *)

CtxTasks == {1, 2}
CtxIds == 1 .. MaxCtx

\* ContextWrapper::new: an empty slot; no context exists
CtxInit ==
    /\ cslot = None
    /\ wholder = None
    /\ cparent = [c \in CtxIds |-> -1]
    /\ ccanc = {}
    /\ ctodo = [t \in CtxTasks |-> {}]
    /\ cwait = {}
    /\ cwoken = {}
    /\ rpc = [t \in CtxTasks |-> "idle"]
    /\ rold = [t \in CtxTasks |-> None]
    /\ rnew = [t \in CtxTasks |-> None]
    /\ creturned = {}

\* the next context to be created
NextCtx == Cardinality({ c \in CtxIds : cparent[c] # -1 }) + 1

\* mutant: the children of a context are not remembered
children_none(c) == {}

\* the child registry of a context
children(c) == { d \in CtxIds : cparent[d] = c }

\* Context::cancel on one node: sets the flag and notifies the registry of
\* its done() event; the children are left to the caller's recursion
cancel_node(t, c) ==
    /\ ccanc' = ccanc \cup {c}
    /\ cwoken' = cwoken \cup ({c} \cap cwait)
    /\ ctodo' = [ctodo EXCEPT ![t] = (@ \ {c}) \cup
                    (IF c \in ccanc THEN {} ELSE children(c))]

\* Context::cancel called on a context the task has a handle of
Context_cancel(t, c) ==
    /\ rpc[t] = "idle" /\ ctodo[t] = {}
    /\ cparent[c] # -1
    /\ cancel_node(t, c)
    /\ UNCHANGED << cslot, wholder, cparent, cwait, rpc, rold, rnew, creturned, notCtxVars >>

\* the recursion of cancel: one more child is cancelled
Context_cancel_child(t) ==
    /\ ctodo[t] # {}
    /\ \E c \in ctodo[t] : cancel_node(t, c)
    /\ UNCHANGED << cslot, wholder, cparent, cwait, rpc, rold, rnew, creturned, notCtxVars >>

\* Context::new_child: a node under parent p, cancelled from the start when
\* p is cancelled already
Context_new_child(t, p) ==
    /\ rpc[t] = "idle" /\ ctodo[t] = {}
    /\ cparent[p] # -1
    /\ NextCtx \in CtxIds
    /\ cparent' = [cparent EXCEPT ![NextCtx] = p]
    /\ ccanc' = IF p \in ccanc THEN ccanc \cup {NextCtx} ELSE ccanc
    /\ UNCHANGED << cslot, wholder, ctodo, cwait, cwoken, rpc, rold, rnew, creturned, notCtxVars >>

\* Context::done polled on a context not cancelled: the event stays pending,
\* registered for the notification of cancel
Context_done(t, c) ==
    /\ rpc[t] = "idle" /\ ctodo[t] = {}
    /\ cparent[c] # -1
    /\ c \notin ccanc
    /\ cwait' = cwait \cup {c}
    /\ UNCHANGED << cslot, wholder, cparent, ccanc, ctodo, cwoken, rpc, rold, rnew, creturned, notCtxVars >>

\* mutant: replace does not wait for the wrapper's mutex
WrapperFree_always == TRUE

\* self.0.lock() returns once no task holds the wrapper's mutex
WrapperFree == wholder = None

\* replace: let mut opt = self.0.lock()
Replace_lock(t) ==
    /\ rpc[t] = "idle" /\ ctodo[t] = {}
    /\ NextCtx \in CtxIds
    /\ WrapperFree
    /\ wholder' = t
    /\ rpc' = [rpc EXCEPT ![t] = "take"]
    /\ UNCHANGED << cslot, cparent, ccanc, ctodo, cwait, cwoken, rold, rnew, creturned, notCtxVars >>

\* replace: if let Some(ctx) = opt.take() { ctx.cancel() }
Replace_cancel(t) ==
    /\ rpc[t] = "take"
    /\ rold' = [rold EXCEPT ![t] = cslot]
    /\ cslot' = None
    /\ IF cslot # None THEN cancel_node(t, cslot) ELSE UNCHANGED << ccanc, cwoken, ctodo >>
    /\ rpc' = [rpc EXCEPT ![t] = "new"]
    /\ UNCHANGED << wholder, cparent, cwait, rnew, creturned, notCtxVars >>

\* replace: let ctx = Context::new_global(); *opt = Some(ctx.clone())
Replace_new(t) ==
    /\ rpc[t] = "new" /\ ctodo[t] = {}
    /\ NextCtx \in CtxIds
    /\ cparent' = [cparent EXCEPT ![NextCtx] = None]
    /\ rnew' = [rnew EXCEPT ![t] = NextCtx]
    /\ cslot' = NextCtx
    /\ rpc' = [rpc EXCEPT ![t] = "unlock"]
    /\ UNCHANGED << wholder, ccanc, ctodo, cwait, cwoken, rold, creturned, notCtxVars >>

\* replace: the guard opt is dropped at the end of the function
Replace_unlock(t) ==
    /\ rpc[t] = "unlock"
    /\ wholder' = IF wholder = t THEN None ELSE wholder
    /\ rpc' = [rpc EXCEPT ![t] = "ret"]
    /\ UNCHANGED << cslot, cparent, ccanc, ctodo, cwait, cwoken, rold, rnew, creturned, notCtxVars >>

\* replace returns ctx to its caller
Replace_return(t) ==
    /\ rpc[t] = "ret"
    /\ creturned' = creturned \cup {rnew[t]}
    /\ rpc' = [rpc EXCEPT ![t] = "idle"]
    /\ UNCHANGED << cslot, wholder, cparent, ccanc, ctodo, cwait, cwoken, rold, rnew, notCtxVars >>

(* ------------------------------------------------------------------ *)
(* Broadcast                                                            *)
(* ------------------------------------------------------------------ *)

\* the tasks listening to one Broadcast
Listeners == {1, 2}

\* a new Broadcast, and listeners that have observed its generation
BcInit ==
    /\ bgen = 0
    /\ blocal = [w \in Listeners |-> 0]
    /\ blast = [w \in Listeners |-> "none"]
    /\ bgot = [w \in Listeners |-> 0]
    /\ bmissed = [w \in Listeners |-> 0]

\* Broadcast::signal: bumps the generation (the registry is notified; a
\* listener polls whenever it runs)
Broadcast_signal ==
    /\ bgen < MaxSignals
    /\ bgen' = bgen + 1
    /\ bmissed' = [w \in Listeners |-> bmissed[w] + 1]
    /\ UNCHANGED << blocal, blast, bgot, notBcVars >>

\* mutant: the listener steps through the generations one by one
seen_next(local, gen) == local + 1

\* the generation a listener has observed after a successful poll
seen(local, gen) == gen

\* the poll of a listener's event: succeeds when the generation differs from
\* the one last observed, which it then updates
Listener_poll(w) ==
    /\ IF blocal[w] # bgen
       THEN /\ blocal' = [blocal EXCEPT ![w] = seen(blocal[w], bgen)]
            /\ blast' = [blast EXCEPT ![w] = "ok"]
            /\ bgot' = [bgot EXCEPT ![w] = @ + 1]
       ELSE /\ blast' = [blast EXCEPT ![w] = "pending"]
            /\ UNCHANGED << blocal, bgot >>
    /\ bmissed' = [bmissed EXCEPT ![w] = 0]
    /\ UNCHANGED << bgen, notBcVars >>

(* ------------------------------------------------------------------ *)
(* Promise                                                              *)
(* ------------------------------------------------------------------ *)

\* the tasks waiting on one Promise, and the values offered to it
Waiters == {1, 2}
PromiseValues == {1, 2}

\* a new Promise: not fulfilled, nobody waiting
PromiseInit ==
    /\ pvalue = None
    /\ pful = << >>
    /\ preg = {}
    /\ ppc = [w \in Waiters |-> "idle"]
    /\ pearly = [w \in Waiters |-> FALSE]
    /\ pseen = [w \in Waiters |-> None]

\* mutant: a later fulfill overwrites the value
stored_last(old, v) == v

\* the value a Promise holds after fulfill(v)
stored(old, v) == IF old = None THEN v ELSE old

\* Promise::fulfill: succeeds once and notifies the registry; a later call
\* is an error
Promise_fulfill(v) ==
    /\ Len(pful) < MaxFulfill
    /\ pvalue' = stored(pvalue, v)
    /\ pful' = Append(pful, << v, IF pvalue = None THEN "ok" ELSE "err" >>)
    /\ UNCHANGED << preg, ppc, pearly, pseen, notPrVars >>

\* Promise::wait: the event of a task that starts waiting
Promise_wait(w) ==
    /\ ppc[w] = "idle"
    /\ ppc' = [ppc EXCEPT ![w] = "waiting"]
    /\ preg' = preg \cup {w}
    /\ pearly' = [pearly EXCEPT ![w] = pvalue = None]
    /\ UNCHANGED << pvalue, pful, pseen, notPrVars >>

\* the poll of the wait event: resolves with the stored value once there is
\* one, and is pending before
Promise_poll(w) ==
    /\ ppc[w] = "waiting"
    /\ IF pvalue # None
       THEN /\ ppc' = [ppc EXCEPT ![w] = "got"]
            /\ pseen' = [pseen EXCEPT ![w] = pvalue]
            /\ preg' = preg \ {w}
       ELSE UNCHANGED << ppc, pseen, preg >>
    /\ UNCHANGED << pvalue, pful, pearly, notPrVars >>

(* ------------------------------------------------------------------ *)
(* Construction: try_channel / channel, Mutex::try_new                  *)
(* ------------------------------------------------------------------ *)

\* the kernel objects of a channel, in the order try_channel creates them:
\* data mutex, send mutex, acknowledgment semaphore
KernelObjects == << "data", "send", "ack" >>
Created(n) == {KernelObjects[i] : i \in 1 .. n}

\* the task is about to call one of the two constructors
CreateInit ==
    /\ kheap = HeapSlots
    /\ kother = 0
    /\ klive = {}
    /\ kpc = "idle"
    /\ kstep = 0
    /\ kvia = "try_channel"
    /\ kcalls = 0
    /\ kfailat = None
    /\ kchan = << >>

\* other tasks create and delete kernel objects of their own
Kernel_other_create ==
    /\ kheap > 0
    /\ kheap' = kheap - 1
    /\ kother' = kother + 1
    /\ UNCHANGED << klive, kpc, kstep, kvia, kcalls, kfailat, kchan, notNewVars >>

Kernel_other_delete ==
    /\ kother > 0
    /\ kheap' = kheap + 1
    /\ kother' = kother - 1
    /\ UNCHANGED << klive, kpc, kstep, kvia, kcalls, kfailat, kchan, notNewVars >>

\* the call of try_channel(), or of channel() which calls it
Channel_call(via) ==
    /\ kpc \in {"idle", "err"}
    /\ kcalls < MaxCreate
    /\ kcalls' = kcalls + 1
    /\ kvia' = via
    /\ kpc' = "create"
    /\ kstep' = 1
    /\ kfailat' = None
    /\ UNCHANGED << kheap, kother, klive, kchan, notNewVars >>

\* mutant: the objects created before the failure are left behind
dropped_none(live) == {}

\* the fields of ChannelShared already built, dropped when `?` returns:
\* Mutex::drop deletes the kernel mutex
dropped(live) == live

\* ChannelData and ChannelShared as try_channel fills them in
NewChannel ==
    [value |-> None, seq |-> FALSE, send_event |-> {}, receive_event |-> {},
     ack_sem |-> 0, send_mutex |-> None]

\* the i-th creation of try_channel: Mutex::try_new twice, then
\* Semaphore::try_new; a failure returns Err through `?`, which channel()
\* turns into a panic
Channel_create ==
    /\ kpc = "create"
    /\ IF kheap > 0
       THEN /\ kheap' = kheap - 1
            /\ klive' = klive \cup {KernelObjects[kstep]}
            /\ kpc' = IF kstep < Len(KernelObjects) THEN "create" ELSE "ok"
            /\ kstep' = IF kstep < Len(KernelObjects) THEN kstep + 1 ELSE kstep
            /\ kchan' = IF kstep < Len(KernelObjects) THEN << >> ELSE << NewChannel >>
            /\ UNCHANGED kfailat
       ELSE /\ kheap' = kheap + Cardinality(dropped(klive))
            /\ klive' = klive \ dropped(klive)
            /\ kpc' = IF kvia = "channel" THEN "panic" ELSE "err"
            /\ kfailat' = kstep
            /\ UNCHANGED << kstep, kchan >>
    /\ UNCHANGED << kother, kvia, kcalls, notNewVars >>

(* ------------------------------------------------------------------ *)
(* select_either / select_any!                                          *)
(* ------------------------------------------------------------------ *)

\* the events written in select_any!(e1, e2, e3), in that order
Events == 1 .. 3

\* the poll of an inner event: Ok(r) consumes it, Err gives it back
leaf_poll(i) ==
    [ok |-> eready[i], r |-> IF eready[i] THEN i ELSE None,
     polled |-> << i >>, cont |-> IF eready[i] THEN << >> ELSE << i >>]

\* mutant: the second event is polled before the first
either_poll_swapped(a, b) ==
    IF b.ok THEN b
    ELSE IF a.ok THEN [a EXCEPT !.polled = b.polled \o a.polled]
    ELSE [ok |-> FALSE, r |-> None, polled |-> b.polled \o a.polled,
          cont |-> a.cont \o b.cont]

\* EitherSelect::poll, given what the poll of each part does: the first is
\* polled and returns when Ok; only then the second is polled; when both
\* fail the new EitherSelect holds both returned events
either_poll(a, b) ==
    IF a.ok THEN a
    ELSE IF b.ok THEN [b EXCEPT !.polled = a.polled \o b.polled]
    ELSE [ok |-> FALSE, r |-> None, polled |-> a.polled \o b.polled,
          cont |-> a.cont \o b.cont]

\* EitherSelect::sleep
either_sleep(a, b) == combine(a, b)

\* select_any!: select_either(e1, select_any!(rest...))
select_any_poll ==
    IF eshape = "either"
    THEN either_poll(leaf_poll(1), leaf_poll(2))
    ELSE either_poll(leaf_poll(1), either_poll(leaf_poll(2), leaf_poll(3)))

select_any_sleep ==
    IF eshape = "either"
    THEN either_sleep(esl[1], esl[2])
    ELSE either_sleep(esl[1], either_sleep(esl[2], esl[3]))

NotPolled == [ok |-> FALSE, r |-> None, polled |-> << >>, cont |-> << >>]

\* no combined event in use
EitherOff ==
    /\ eshape = "either"
    /\ eready = [i \in Events |-> FALSE]
    /\ esl = [i \in Events |-> NotifyTake(NoInstant)]
    /\ erdy = [i \in Events |-> FALSE]
    /\ eres = NotPolled
    /\ eattempts = 0
    /\ etaken = [i \in Events |-> 0]
    /\ esleep = NotifyTake(NoInstant)

(* ------------------------------------------------------------------ *)
(* select_map                                                           *)
(* ------------------------------------------------------------------ *)

\* the closures given to select_map, and their application
MapFns == {"succ", "double"}
apply(f, x) == IF f = "succ" THEN x + 1 ELSE 2 * x

\* the event an inner poll gives back in Err: the same event, whatever its
\* readiness becomes
continuation(inner) == [val |-> inner.val, sl |-> inner.sl]

\* mutant: f is called whether or not the inner poll succeeded
map_poll_eager(inner, f) ==
    [ok |-> inner.ready,
     r |-> IF inner.ready THEN apply(f, inner.val) ELSE None,
     called |-> 1,
     cont |-> IF inner.ready THEN << >> ELSE << [event |-> continuation(inner), f |-> f] >>]

\* MapSelect::poll: Ok((self.f)(r)) when the inner poll is Ok(r), otherwise
\* Err of a MapSelect built from the returned event and the same f
map_poll(inner, f) ==
    [ok |-> inner.ready,
     r |-> IF inner.ready THEN apply(f, inner.val) ELSE None,
     called |-> IF inner.ready THEN 1 ELSE 0,
     cont |-> IF inner.ready THEN << >> ELSE << [event |-> continuation(inner), f |-> f] >>]

\* MapSelect::sleep
map_sleep(inner) == inner.sl

MapNotPolled == [ok |-> FALSE, r |-> None, called |-> 0, cont |-> << >>]

\* no mapped event in use
MapOff ==
    /\ minner = [ready |-> FALSE, val |-> 1, sl |-> NotifyTake(NoInstant)]
    /\ mfn = "succ"
    /\ mlive = FALSE
    /\ mres = MapNotPolled
    /\ mfcalls = 0
    /\ mpolls = 0
    /\ msleep = NotifyTake(NoInstant)

(* ------------------------------------------------------------------ *)
(* Queue                                                                *)
(* ------------------------------------------------------------------ *)

QueueOps == {"prepend", "append", "peek", "recv"}
QueueItems == {1, 2}
\* timeouts below, at and above one second
QueueTimeouts == {0, 1, 999, 1000, 2000}

QueueInit ==
    /\ qitems = << >>
    /\ qclock = 0
    /\ qpc = "idle"
    /\ qop = "append"
    /\ qitem = 1
    /\ qT = 0
    /\ qstart = 0
    /\ qwait = 0
    /\ qres = [kind |-> "unset", val |-> None, at |-> 0]
    /\ qcalls = 0

\* Duration::as_secs: whole seconds
as_secs(ms) == ms \div 1000

\* the kernel clock
Queue_tick ==
    /\ qclock < MaxQTime
    /\ qclock' = qclock + 1
    /\ UNCHANGED << qitems, qpc, qop, qitem, qT, qstart, qwait, qres, qcalls, notQVars >>

\* another task takes the front element, or posts one
Queue_other_recv ==
    /\ qitems # << >>
    /\ qitems' = Tail(qitems)
    /\ UNCHANGED << qclock, qpc, qop, qitem, qT, qstart, qwait, qres, qcalls, notQVars >>

Queue_other_send ==
    /\ Len(qitems) < QueueLen
    /\ qitems' = Append(qitems, 2)
    /\ UNCHANGED << qclock, qpc, qop, qitem, qT, qstart, qwait, qres, qcalls, notQVars >>

\* Queue::prepend / append / peek / recv: the call into the kernel, which
\* is given timeout.as_secs() as its timeout in milliseconds
Queue_call(op, item, T) ==
    /\ qpc = "idle"
    /\ qcalls < MaxQCalls
    /\ qcalls' = qcalls + 1
    /\ qop' = op
    /\ qitem' = item
    /\ qT' = T
    /\ qstart' = qclock
    /\ qwait' = as_secs(T)
    /\ qpc' = "kernel"
    /\ UNCHANGED << qitems, qclock, qres, notQVars >>

\* the kernel can carry the operation out
QueueCan == IF qop \in {"prepend", "append"} THEN Len(qitems) < QueueLen ELSE qitems # << >>

\* mutant: the wrapper reports Ok whatever the kernel returned
send_result_ok(done, item) == [kind |-> "ok", val |-> None]

\* Queue::prepend / append: Ok(()) when the kernel call returned true,
\* Err(item) otherwise
send_result(done, item) ==
    IF done THEN [kind |-> "ok", val |-> None] ELSE [kind |-> "err", val |-> item]

\* Queue::peek / recv: Some(buf[0]) when the kernel call returned true,
\* None otherwise
take_result(done, front) ==
    IF done THEN [kind |-> "some", val |-> front] ELSE [kind |-> "none", val |-> None]

\* the kernel call returns true: the operation was carried out
Queue_done ==
    /\ qpc = "kernel"
    /\ QueueCan
    /\ qitems' = CASE qop = "prepend" -> << qitem >> \o qitems
                   [] qop = "append" -> Append(qitems, qitem)
                   [] qop = "peek" -> qitems
                   [] qop = "recv" -> Tail(qitems)
    /\ qres' = [at |-> qclock] @@
               (IF qop \in {"prepend", "append"}
                THEN send_result(TRUE, qitem)
                ELSE take_result(TRUE, Head(qitems)))
    /\ qpc' = "idle"
    /\ UNCHANGED << qclock, qop, qitem, qT, qstart, qwait, qcalls, notQVars >>

\* the kernel call returns false: its timeout has passed
Queue_timeout ==
    /\ qpc = "kernel"
    /\ ~QueueCan
    /\ qclock >= qstart + qwait
    /\ qres' = [at |-> qclock] @@
               (IF qop \in {"prepend", "append"}
                THEN send_result(FALSE, qitem)
                ELSE take_result(FALSE, None))
    /\ qpc' = "idle"
    /\ UNCHANGED << qitems, qclock, qop, qitem, qT, qstart, qwait, qcalls, notQVars >>

(* ------------------------------------------------------------------ *)
(* Loop                                                                 *)
(* ------------------------------------------------------------------ *)

LoopWidth == 2 ^ LoopBits

\* the periods given to Loop::new, in milliseconds
LoopDeltas == {0, 1, 2, 3, LoopWidth - 1}

\* delta.as_millis() as u32
as_u32(ms) == ms % LoopWidth

\* last_time + delta on u32: the sum leaves the type
overflows(a, b) == a + b >= LoopWidth

\* last_time + delta on u32 in a build without overflow checks
wrapping_add(a, b) == (a + b) % LoopWidth

\* no Loop yet; the clock is at the start
LoopInit ==
    /\ last_time = 0
    /\ delta = 0
    /\ lmillis = 0
    /\ llive = FALSE
    /\ lchecks = FALSE
    /\ lev = FALSE
    /\ lres = "none"
    /\ lsleep = << >>
    /\ lstart = 0
    /\ lsucc = 0
    /\ lpolls = 0
    /\ lobs = [last |-> 0, now |-> 0]
    /\ lpanic = FALSE

\* the clock advances; it is followed up to the last value of its width
Loop_tick ==
    /\ lmillis < LoopWidth - 1
    /\ lmillis' = lmillis + 1
    /\ UNCHANGED << last_time, delta, llive, lchecks, lev, lres, lsleep, lstart, lsucc, lpolls, lobs, lpanic >>
    /\ UNCHANGED notLoopVars

\* Loop::new(delta): last_time is the clock, delta is truncated to u32
Loop_new(d, checks) ==
    /\ ~llive
    /\ llive' = TRUE
    /\ lchecks' = checks
    /\ last_time' = lmillis
    /\ delta' = as_u32(d)
    /\ lstart' = lmillis
    /\ UNCHANGED << lmillis, lev, lres, lsleep, lsucc, lpolls, lobs, lpanic >>
    /\ UNCHANGED notLoopVars

\* Loop::next: a LoopSelect borrowing the Loop
Loop_next ==
    /\ llive /\ ~lev /\ ~lpanic
    /\ lpolls < MaxLoopPolls
    /\ lev' = TRUE
    /\ lsleep' = << >>
    /\ UNCHANGED << last_time, delta, lmillis, llive, lchecks, lres, lstart, lsucc, lpolls, lobs, lpanic >>
    /\ UNCHANGED notLoopVars

\* LoopSelect::poll: millis() >= last_time + delta, then last_time += delta;
\* the descriptor made for this pass of the select! is spent
LoopSelect_poll ==
    /\ lev /\ ~lpanic
    /\ lpolls < MaxLoopPolls
    /\ lpolls' = lpolls + 1
    /\ lobs' = [last |-> last_time, now |-> lmillis]
    /\ IF overflows(last_time, delta) /\ lchecks
       THEN /\ lpanic' = TRUE
            /\ lres' = "none"
            /\ lev' = FALSE
            /\ UNCHANGED << last_time, lsucc >>
       ELSE IF lmillis >= wrapping_add(last_time, delta)
       THEN /\ last_time' = wrapping_add(last_time, delta)
            /\ lres' = "ok"
            /\ lev' = FALSE
            /\ lsucc' = lsucc + 1
            /\ UNCHANGED lpanic
       ELSE /\ lres' = "err"
            /\ UNCHANGED << last_time, lev, lsucc, lpanic >>
    /\ lsleep' = << >>
    /\ UNCHANGED << delta, lmillis, llive, lchecks, lstart >>
    /\ UNCHANGED notLoopVars

\* LoopSelect::sleep: Timestamp(last_time + delta)
LoopSelect_sleep ==
    /\ lev /\ ~lpanic
    /\ lsleep = << >>
    /\ IF overflows(last_time, delta) /\ lchecks
       THEN /\ lpanic' = TRUE
            /\ lev' = FALSE
            /\ UNCHANGED lsleep
       ELSE /\ lsleep' = << wrapping_add(last_time, delta) >>
            /\ UNCHANGED << lev, lpanic >>
    /\ UNCHANGED << lres, last_time, delta, lmillis, llive, lchecks, lstart, lsucc, lpolls, lobs >>
    /\ UNCHANGED notLoopVars

(* ------------------------------------------------------------------ *)
(* Specifications                                                       *)
(* ------------------------------------------------------------------ *)

\* Instant arithmetic not in use
InstantOff == iself = 0 /\ idur = 0 /\ irhs = 0 /\ iop = "none" /\ ires = 0

\* every part of the model but part g is in its state of rest
OffExcept(g) ==
    /\ ChanInit
    /\ MutexInit
    /\ CtxInit
    /\ BcInit
    /\ LoopInit
    /\ QueueInit
    /\ IF g = "map" THEN TRUE ELSE MapOff
    /\ IF g = "either" THEN TRUE ELSE EitherOff
    /\ CreateInit
    /\ PromiseInit
    /\ IF g = "select" THEN TRUE ELSE SelOff
    /\ IF g = "sleep" THEN TRUE ELSE SleepOff
    /\ IF g = "instant" THEN TRUE ELSE InstantOff

Init == OffExcept("none")

\* a task about to call sleep() on some descriptor, with the notifications
\* it has from before
SleepInit ==
    /\ millis = 0
    /\ gs \in GenericSleeps
    /\ simpl \in {"mod", "rtos"}
    /\ spc = "ready"
    /\ scall = 0
    /\ until = NoInstant
    /\ tnotif \in 0 .. NotifyCap
    /\ staken = 0
    /\ sret = 0
    /\ sback = 0
    /\ OffExcept("sleep")

\* operands around both ends of the u32 range; durations up to beyond
\* u32::MAX milliseconds, with and without a fraction of a millisecond
InstantInit ==
    /\ iself \in {0, 1, 2, 3, U32Max - 1, U32Max}
    /\ idur \in {0, 1, 2, 3, 2 * U32Max, 2 * U32Max + 1, 2 * U32Max + 2, 2 * U32Max + 5}
    /\ irhs \in {0, 1, 2, U32Max}
    /\ iop = "none"
    /\ ires = 0
    /\ OffExcept("instant")

SenderStep(s) ==
    \/ SendSelect_sleep(s)
    \/ SendSleep_wake(s)
    \/ SendPoll_lock(s)
    \/ SendPoll_assert(s)
    \/ SendPoll_publish(s)
    \/ SendPoll_ackwait(s)
    \/ SendPoll_check(s)
    \/ SendSelect_done(s)

ReceiverStep(r) ==
    \/ RecvSleep_wake(r)
    \/ ReceiveSelect_poll(r)
    \/ RecvSelect_done(r)

Next ==
    \/ \E s \in Senders : SendChannel_select(s)
    \/ \E s \in Senders : SenderStep(s)
    \/ \E r \in Receivers : ReceiveChannel_select(r)
    \/ \E r \in Receivers : ReceiverStep(r)
    \/ \E r \in Receivers : RecvSelect_abandon(r)

Spec == Init /\ [][Next]_vars

\* the receivers' select! also wakes up on the deadline of another branch
TimedNext ==
    \/ Next
    \/ \E r \in Receivers : RecvSleep_timeout(r)

TimedSpec == Init /\ [][TimedNext]_vars

SelectStep ==
    \/ Select_sleep
    \/ GenericSleep_sleep
    \/ Select_match
    \/ Select_body

SelNext ==
    \/ SelectStep
    \/ Tick
    \/ \E i \in Branches : BranchPublish(i)
    \/ \E i \in Branches : BranchReclaim(i)

\* the select! is entered; the channel of Spec is not used
SelectInit == SelInit /\ OffExcept("select")

SelSpec == SelectInit /\ [][SelNext]_vars

\* the kernel runs the select! task whenever it is runnable, and time passes
FairSelSpec == SelSpec /\ WF_vars(SelectStep) /\ WF_vars(Tick)

\* the kernel runs every task that is runnable; whether a task starts a
\* select!, and whether another branch of it fires, is up to the program
FairSpec ==
    /\ Spec
    /\ \A s \in Senders : WF_vars(SenderStep(s))
    /\ \A r \in Receivers : WF_vars(ReceiverStep(r))

\* one task calling GenericSleep::sleep, the clock and a notifying task
SleepNext ==
    \/ sleep
    \/ sleep_rtos
    \/ task_notify_take
    \/ task_delay
    \/ SleepTick
    \/ SleepNotify

SleepSpec == SleepInit /\ [][SleepNext]_vars

\* the steps of one task using the Mutex
MutexStep(t) ==
    \/ Mutex_try_lock(t)
    \/ Mutex_take_return(t)
    \/ Mutex_poll(t)
    \/ MutexGuard_drop(t)
    \/ Mutex_exit(t)

MutexNext == \E t \in MutexTasks : MutexStep(t)

MutexSpec == Init /\ [][MutexNext]_vars

\* the kernel schedules every task that can run
FairMutexSpec == MutexSpec /\ \A t \in MutexTasks : WF_vars(MutexStep(t))

\* one operation of Instant applied to operands drawn at the start
InstantSpec == InstantInit /\ [][Instant_apply]_vars

\* tasks calling replace on one ContextWrapper, and using the contexts
CtxStep(t) ==
    \/ Replace_lock(t)
    \/ Replace_cancel(t)
    \/ Replace_new(t)
    \/ Replace_unlock(t)
    \/ Replace_return(t)
    \/ Context_cancel_child(t)
    \/ \E c \in CtxIds : Context_cancel(t, c)
    \/ \E c \in CtxIds : Context_new_child(t, c)
    \/ \E c \in CtxIds : Context_done(t, c)

CtxSpec == Init /\ [][\E t \in CtxTasks : CtxStep(t)]_vars

\* one Broadcast, signalled while its listeners poll now and then
BcNext ==
    \/ Broadcast_signal
    \/ \E w \in Listeners : Listener_poll(w)

BcSpec == Init /\ [][BcNext]_vars

\* one Promise, fulfilled more than once, with tasks waiting before and after
PromiseNext ==
    \/ \E v \in PromiseValues : Promise_fulfill(v)
    \/ \E w \in Waiters : Promise_wait(w) \/ Promise_poll(w)

PromiseSpec == Init /\ [][PromiseNext]_vars

\* a task constructing a channel while the kernel's memory comes and goes
CreateNext ==
    \/ Kernel_other_create
    \/ Kernel_other_delete
    \/ \E via \in {"try_channel", "channel"} : Channel_call(via)
    \/ Channel_create

CreateSpec == Init /\ [][CreateNext]_vars

\* a combined event over inner events of any readiness and any deadline
EitherInit ==
    /\ eshape \in {"either", "any"}
    /\ eready \in [Events -> BOOLEAN]
    /\ esl \in [Events -> {NotifyTake(NoInstant), NotifyTake(0), Timestamp(1)}]
    /\ erdy = [i \in Events |-> FALSE]
    /\ eres = NotPolled
    /\ eattempts = 0
    /\ etaken = [i \in Events |-> 0]
    /\ esleep = NotifyTake(NoInstant)
    /\ OffExcept("either")

\* Selectable::poll of the combined event
Either_poll ==
    /\ eattempts < MaxAttempts
    /\ eattempts' = eattempts + 1
    /\ eres' = select_any_poll
    /\ erdy' = eready
    /\ eready' = [i \in Events |-> eready[i] /\ i # select_any_poll.r]
    /\ etaken' = [i \in Events |-> etaken[i] + IF i = select_any_poll.r THEN 1 ELSE 0]
    /\ UNCHANGED << eshape, esl, esleep, notEiVars >>

\* Selectable::sleep of the combined event
Either_sleep ==
    /\ esleep # select_any_sleep
    /\ esleep' = select_any_sleep
    /\ UNCHANGED << eshape, eready, esl, erdy, eres, eattempts, etaken, notEiVars >>

\* another task makes an inner event ready
Either_ready(i) ==
    /\ ~eready[i]
    /\ eattempts < MaxAttempts
    /\ eready' = [eready EXCEPT ![i] = TRUE]
    /\ UNCHANGED << eshape, esl, erdy, eres, eattempts, etaken, esleep, notEiVars >>

EitherNext ==
    \/ Either_poll
    \/ Either_sleep
    \/ \E i \in Events : Either_ready(i)

EitherSpec == EitherInit /\ [][EitherNext]_vars

\* select_map(event, f) over an inner event of any readiness and deadline
MapInit ==
    /\ minner \in [ready : BOOLEAN, val : {1, 2}, sl : GenericSleeps]
    /\ mfn \in MapFns
    /\ mlive = TRUE
    /\ mres = MapNotPolled
    /\ mfcalls = 0
    /\ mpolls = 0
    /\ msleep = NotifyTake(NoInstant)
    /\ OffExcept("map")

\* Selectable::poll of the mapped event; an Err is the event to poll next
Map_poll ==
    /\ mlive
    /\ mpolls < MaxAttempts
    /\ mpolls' = mpolls + 1
    /\ mres' = map_poll(minner, mfn)
    /\ mfcalls' = mfcalls + map_poll(minner, mfn).called
    /\ mlive' = ~map_poll(minner, mfn).ok
    /\ UNCHANGED << minner, mfn, msleep, notMapVars >>

\* Selectable::sleep of the mapped event
Map_sleep ==
    /\ mlive
    /\ msleep # map_sleep(minner)
    /\ msleep' = map_sleep(minner)
    /\ UNCHANGED << minner, mfn, mlive, mres, mfcalls, mpolls, notMapVars >>

\* another task makes the inner event ready
Map_ready ==
    /\ mlive
    /\ ~minner.ready
    /\ minner' = [minner EXCEPT !.ready = TRUE]
    /\ UNCHANGED << mfn, mlive, mres, mfcalls, mpolls, msleep, notMapVars >>

MapNext == Map_poll \/ Map_sleep \/ Map_ready

MapSpec == MapInit /\ [][MapNext]_vars

\* one task calling the Queue, other tasks using it, and the clock
QueueNext ==
    \/ Queue_tick
    \/ Queue_other_recv
    \/ Queue_other_send
    \/ \E op \in QueueOps, item \in QueueItems, T \in QueueTimeouts : Queue_call(op, item, T)
    \/ Queue_done
    \/ Queue_timeout

QueueSpec == Init /\ [][QueueNext]_vars

\* one task with a Loop, polling its events at any time, and the clock
LoopNext ==
    \/ Loop_tick
    \/ \E d \in LoopDeltas : \E checks \in BOOLEAN : Loop_new(d, checks)
    \/ Loop_next
    \/ LoopSelect_poll
    \/ LoopSelect_sleep

LoopSpec == Init /\ [][LoopNext]_vars

(* ------------------------------------------------------------------ *)
(* Properties of the channel                                            *)
(* ------------------------------------------------------------------ *)

Range(f) == { f[i] : i \in DOMAIN f }
ReceivedValues == [i \in DOMAIN received |-> received[i][2]]
IsPrefix(a, b) == Len(a) <= Len(b) /\ \A i \in DOMAIN a : a[i] = b[i]

\* a receive continuation that is live and has not obtained a value
Pending(r) == pc[r] \in {"sleep", "poll"}

\* number of values receiver r has obtained
Got(r) == Cardinality({ i \in DOMAIN received : received[i][1] = r })

\* C1: every value whose send reported success was returned by exactly one
\* receive poll, the values were received in the order of the sends, and a
\* receiver that did not obtain a value is still pending and registered.
C1_ExactlyOnceInOrder ==
    /\ \A i, j \in DOMAIN received : received[i][2] = received[j][2] => i = j
    /\ IsPrefix(okSends, ReceivedValues)
    /\ Len(received) <= Len(okSends) + 1
    /\ \A r \in Receivers : Pending(r) => r \in recvEvent /\ ~hdone[r]
    /\ \A r \in Receivers : Got(r) <= rounds[r] - (IF Pending(r) THEN 1 ELSE 0)

\* C1 witness: one value was sent with success and taken by one receiver
\* while another receiver, woken by the same publish, polled and is pending.
C1_Witness ==
    /\ Len(okSends) = 1
    /\ Len(received) = 1
    /\ \E r \in Receivers :
          /\ r # received[1][1]
          /\ pc[r] = "sleep"
          /\ r \in recvEvent
          /\ rseq[r] = seq
          /\ notif[r] = 0
          /\ seq = TRUE

\* C2: a send poll returns Ok exactly when a receiver took the value it
\* published, and otherwise returns Err carrying that value, which no receive
\* poll has returned; once the poll has returned the cell holds no value.
C2_SendResult ==
    /\ \A s \in Senders :
          pc[s] # "ackwait" =>
             /\ lastRes[s].kind = "ok" =>
                   /\ taker[s] # None
                   /\ \E i \in DOMAIN received : received[i][1] = taker[s]
             /\ pc[s] = "sent" =>
                   /\ lastRes[s].kind = "ok"
                   /\ << taker[s], ValueOf(s, sidx[s] + 1) >> \in Range(received)
             /\ lastRes[s].kind = "err" =>
                   /\ taker[s] = None
                   /\ pc[s] # "sent"
                   /\ lastRes[s].val = ValueOf(s, sidx[s] + 1)
                   /\ lastRes[s].val \notin Range(ReceivedValues)
    /\ (\A s \in Senders : pc[s] # "ackwait") => value = None

\* C2 witness: one sender's poll has failed with its value handed back while
\* the other sender's poll has succeeded.
C2_Witness ==
    \E s, t \in Senders :
        /\ pc[s] = "sleep" /\ lastRes[s].kind = "err"
        /\ pc[t] = "sent" /\ lastRes[t].kind = "ok"

\* receive continuations that still owe an acknowledgment for the publish
Debtors == { r \in recvEvent : rseq[r] # seq /\ ~hdone[r] }

\* C4: while a sender waits for its n acknowledgments, every acknowledgment
\* it still needs is either already posted or owed by a registered receive
\* continuation whose task is runnable and posts it in its next poll or in
\* its destructor; a dropped continuation never leaves the wait short.
C4_AckCovered ==
    \A s \in Senders :
        pc[s] = "ackwait" =>
            /\ need[s] <= ackSem + Cardinality(Debtors)
            /\ \A r \in Debtors : pc[r] = "poll" \/ (pc[r] = "sleep" /\ notif[r] > 0)

\* C4 witness: the acknowledgment a sender needs was posted by the destructor
\* of a continuation dropped after the publish (the value is still there, so
\* no poll posted it) and the registry is empty.
C4_Witness ==
    \E s \in Senders :
        /\ pc[s] = "ackwait"
        /\ need[s] = 1
        /\ ackSem = 1
        /\ value # None
        /\ recvEvent = {}

\* C5: at most one publish is in flight: a sender between taking the send
\* mutex and its final decision holds the mutex, so no second sender is
\* there, and a value in the cell belongs to the sender waiting for its
\* acknowledgments.
C5_OnePublish ==
    /\ \A s \in Senders : pc[s] \in {"assert", "publish", "ackwait"} => sendMutex = s
    /\ value # None => pc[SenderOf(value)] = "ackwait"
    /\ \A s \in Senders : pc[s] \notin {"assert", "publish", "ackwait"} => need[s] = 0

\* C5 witness: one sender waits for acknowledgments while the other is
\* blocked on the send mutex.
C5_Witness ==
    \E s, t \in Senders :
        /\ pc[s] = "ackwait" /\ need[s] > 0
        /\ pc[t] = "poll"

\* positions inside SendSelect::poll
InSendPoll(s) == pc[s] \in {"poll", "assert", "publish", "ackwait"}

\* C9 as stated: no poll ever suspends its task, the send poll included.
C9_PollNeverBlocks ==
    /\ \A s \in Senders : InSendPoll(s) => ENABLED SenderStep(s)
    /\ \A r \in Receivers : pc[r] = "poll" => ENABLED ReceiverStep(r)

\* C9 amended: a receive poll never suspends its task; a send poll suspends
\* it only while another task holds the send mutex or while it waits for an
\* acknowledgment that is not yet posted; a task outside a poll is suspended
\* only in GenericSleep::sleep.
C9_OnlySendPollBlocks ==
    /\ \A r \in Receivers : pc[r] \in {"poll", "got"} => ENABLED ReceiverStep(r)
    /\ \A r \in Receivers :
          ~ENABLED ReceiverStep(r) => pc[r] = "idle" \/ (pc[r] = "sleep" /\ notif[r] = 0)
    /\ \A s \in Senders :
          ~ENABLED SenderStep(s) =>
             \/ pc[s] \in {"idle", "panic"}
             \/ pc[s] = "wait" /\ notif[s] = 0
             \/ pc[s] = "poll" /\ sendMutex \in Senders \ {s}
             \/ pc[s] = "ackwait" /\ need[s] > 0 /\ ackSem = 0

\* C9 witness: a task is suspended inside SendSelect::poll, waiting for an
\* acknowledgment.
C9_Witness ==
    \E s \in Senders : pc[s] = "ackwait" /\ need[s] > 0 /\ ackSem = 0 /\ ~ENABLED SenderStep(s)

\* the scenario of C3: task 1 sleeps in its select! on send, entered when no
\* receiver was registered; task 3 then started its select! on receive; the
\* other tasks have not started.
C3_Scenario ==
    /\ pc[1] = "wait"
    /\ pc[3] = "sleep" /\ rounds[3] = 1
    /\ pc[2] = "idle" /\ sidx[2] = 0
    /\ pc[4] = "idle" /\ rounds[4] = 0

\* the scenario is left: task 3 gave up its receive for another branch, or
\* one of the other two tasks started a select! of its own
C3_Disturbed ==
    \/ pc[3] = "idle" /\ Got(3) < rounds[3]
    \/ pc[2] # "idle"
    \/ pc[4] # "idle"

\* C3: in that scenario, as long as nothing else disturbs the two tasks,
\* task 1's send eventually returns success and task 3's receive returns
\* the value.
C3_Rendezvous ==
    C3_Scenario ~>
        \/ lastRes[1].kind = "ok" /\ << 3, ValueOf(1, 1) >> \in Range(received)
        \/ C3_Disturbed

(* ------------------------------------------------------------------ *)
(* Properties of select! and of GenericSleep                            *)
(* ------------------------------------------------------------------ *)

\* the select! task is suspended in GenericSleep::sleep
Suspended == selpc = "wait" /\ ~SleepReturns(slp)

\* the send event of task s is ready by SendSelect::sleep's own test: its
\* select! is running and a receiver is registered
SendReady(s) == pc[s] \notin {"idle", "sent", "panic"} /\ task_count(recvEvent) > 0

\* C6: if the branch of a select! is ready, or becomes ready, and stays so,
\* the select! eventually leaves its loop and runs the branch body; a body
\* only ever runs after the branch's poll succeeded, once per select!.
C6_SelectRunsOneBody ==
    /\ \A s \in Senders : (<>[]SendReady(s)) => <>(pc[s] = "sent")
    /\ [](\A s \in Senders : pc[s] = "sent" => lastRes[s].kind = "ok")
    /\ [][\A s \in Senders : sidx'[s] # sidx[s] => pc[s] = "sent" /\ sidx'[s] = sidx[s] + 1]_vars

\* C7: with branch A (the first) ready at entry and ever since, and no other
\* branch ever ready, the select! never suspends its task, and the body it
\* runs is A's, once.
C7_ReadyBranchNeverSuspends ==
    /\ (1 \in steady.entry /\ steady.ever = {1}) => ~Suspended
    /\ (selpc = "done" /\ steady.ever = {1}) => chosen = 1 /\ ran[1] = 1

C10_CombineCommAssoc ==
    selpc = "wait" =>
        /\ \A i, j \in Branches :
              /\ combine(sl[i], sl[j]) = combine(sl[j], sl[i])
              /\ bitor(sl[i], sl[j]) = bitor(sl[j], sl[i])
              /\ \A c \in GenericSleeps :
                    /\ combine(combine(sl[i], sl[j]), c) = combine(sl[i], combine(sl[j], c))
                    /\ bitor(bitor(sl[i], sl[j]), c) = bitor(sl[i], bitor(sl[j], c))
        /\ NumBranches = 2 => slp = combine(sl[2], sl[1])

\* C10 witness: the select! sleeps on the combination of a Timestamp and a
\* NotifyTake with a later deadline, a NotifyTake with the earlier instant.
C10_Witness ==
    /\ selpc = "wait"
    /\ \E i, j \in Branches :
          /\ sl[i].tag = "Timestamp" /\ sl[j].tag = "NotifyTake"
          /\ sl[j].d # NoInstant /\ sl[i].d < sl[j].d
          /\ NumBranches = 2 => slp = NotifyTake(sl[i].d)

\* deadlines ordered with an absent one as infinitely late
DeadlineLE(x, y) == y = NoInstant \/ (x # NoInstant /\ x <= y)
EarlierDeadline(x, y) == IF DeadlineLE(x, y) THEN x ELSE y

\* C11: combine of two Timestamps is the Timestamp of the earlier deadline;
\* combine with at least one NotifyTake is a NotifyTake of the earlier of the
\* two deadlines, an absent deadline counting as infinite (absent only when
\* both are absent); the result's deadline is never later than an input's,
\* and so the descriptor the select! sleeps on is never later than a branch's.
C11_CombineIsEarliest ==
    selpc = "wait" =>
        /\ \A a, b \in GenericSleeps :
              LET c == combine(a, b) IN
                /\ (a.tag = "Timestamp" /\ b.tag = "Timestamp") =>
                       /\ c.tag = "Timestamp"
                       /\ c.d \in {a.d, b.d} /\ c.d <= a.d /\ c.d <= b.d
                /\ (a.tag = "NotifyTake" \/ b.tag = "NotifyTake") =>
                       /\ c.tag = "NotifyTake"
                       /\ c.d = EarlierDeadline(timeout(a), timeout(b))
                       /\ c.d = NoInstant <=> (a.d = NoInstant /\ b.d = NoInstant)
                /\ DeadlineLE(c.d, a.d) /\ DeadlineLE(c.d, b.d)
        /\ \A i \in Branches : DeadlineLE(slp.d, sl[i].d)

\* C11 witness: the select! sleeps on a receive branch without deadline
\* combined with a timer branch, a NotifyTake with the timer's deadline.
C11_Witness ==
    /\ selpc = "wait"
    /\ slp.tag = "NotifyTake" /\ slp.d # NoInstant
    /\ \E i, j \in Branches : sl[i] = NotifyTake(NoInstant) /\ sl[j] = Timestamp(slp.d)

\* the sleeping task is blocked in the kernel and nothing lets it return
SleepBlocked ==
    \/ spc = "notifywait" /\ tnotif = 0 /\ (until = TIMEOUT_MAX \/ millis < until)
    \/ spc = "delay" /\ millis < until

\* C12: sleep() on Timestamp(d) blocks until the clock reaches d and returns
\* 0, without blocking when d has passed; on NotifyTake(d) it blocks until a
\* notification is there or the clock reaches d (not at all when d has
\* passed), and returns the notifications taken, 0 on a pure timeout; it
\* never fails, and never blocks at or after d.
C12_SleepUntilDeadline ==
    /\ spc # "panicked"
    /\ (SleepBlocked /\ gs.d # NoInstant) => millis < gs.d
    /\ (spc = "returned" /\ gs.tag = "Timestamp") => sret = 0 /\ sback >= gs.d
    /\ (spc = "returned" /\ gs.tag = "NotifyTake") =>
          /\ sret = staken
          /\ sret = 0 => gs.d # NoInstant /\ sback >= gs.d

\* the same, of the sleep() of rtos/mod.rs alone
SleepModConforms == simpl = "mod" => C12_SleepUntilDeadline

(* ------------------------------------------------------------------ *)
(* Properties of the Mutex                                              *)
(* ------------------------------------------------------------------ *)

\* C13: at most one task holds guards of the Mutex; the holder acquires
\* further guards without ever blocking on itself; a task obtains a guard
\* only while no other task has one.
C13_OneHolderRecursive ==
    /\ [](\A t, u \in MutexTasks : (mguards[t] > 0 /\ mguards[u] > 0) => t = u)
    /\ [](\A t \in MutexTasks : mguards[t] > 0 => mholder = t /\ mpc[t] # "take")
    /\ [][\A t \in MutexTasks : mguards'[t] > mguards[t] =>
             \A u \in MutexTasks \ {t} : mguards[u] = 0 /\ mguards'[u] = 0]_vars

\* C13 witness: a task holds two guards of the Mutex at once while the
\* other task is blocked in lock().
C13_Witness ==
    \E t, u \in MutexTasks : mguards[t] = 2 /\ mpc[t] = "run" /\ mpc[u] = "take"

\* C14: every successful acquisition is matched by exactly one release, made
\* when its guard is dropped, whichever way the task leaves; once the holder
\* has dropped its guards a task blocked in lock() gets the mutex; a release
\* the kernel rejects ends in a panic, and none is ever rejected.
C14_ReleasePerGuard ==
    /\ [](\A t \in MutexTasks :
            /\ macq[t] = mrel[t] + mguards[t]
            /\ mpc[t] # "panicked"
            /\ (mholder = t => mcount = mguards[t])
            /\ (mholder # t => mguards[t] = 0))
    /\ [](mholder = None <=> mcount = 0)
    /\ \A t \in MutexTasks : <>[](macq[t] = mrel[t] /\ mguards[t] = 0)
    /\ \A t \in MutexTasks : (mpc[t] = "take") ~> (mpc[t] = "run" /\ mholder = t)

\* C14 witness: a task left its function with guards alive, every one of
\* them was released on the way out, and the task that was blocked in lock()
\* holds the mutex.
C14_Witness ==
    \E t, u \in MutexTasks :
        /\ mpc[t] = "exit" /\ macq[t] = 2 /\ mrel[t] = 2
        /\ mlast[u] = "lock" /\ mholder = u /\ mcalls[t] = 2

\* C15: a poll never blocks the task: with another task holding the mutex it
\* returns None and leaves the mutex as it was; with the mutex free or held
\* by the caller it returns a guard.
C15_PollNeverBlocks ==
    /\ [](\A t \in MutexTasks : mpc[t] = "take" => mlast[t] = "lock")
    /\ [][\A t \in MutexTasks :
            (mcalls'[t] # mcalls[t] /\ mlast'[t] \in {"poll_some", "poll_none"}) =>
                IF mholder \in {None, t}
                THEN /\ mlast'[t] = "poll_some"
                     /\ mholder' = t /\ mguards'[t] = mguards[t] + 1
                     /\ mpc'[t] = "run"
                ELSE /\ mlast'[t] = "poll_none"
                     /\ mpc'[t] = "run"
                     /\ UNCHANGED << mholder, mcount, mguards >>]_vars

\* C15 witness: a poll returned None while the other task held the mutex.
C15_Witness ==
    \E t, u \in MutexTasks :
        /\ t # u /\ mlast[t] = "poll_none" /\ mpc[t] = "run"
        /\ mholder = u /\ mguards[t] = 0

(* ------------------------------------------------------------------ *)
(* Properties of Instant                                                *)
(* ------------------------------------------------------------------ *)

\* the exact result of an operation, over the integers, a Duration counting
\* for its whole milliseconds
InstantExact ==
    CASE iop \in {"checked_add", "add"} -> iself + idur \div 2
      [] iop \in {"checked_sub", "sub"} -> iself - idur \div 2
      [] iop \in {"checked_sub_instant", "sub_instant"} -> iself - irhs
      [] iop \in {"checked_mul", "mul"} -> iself * irhs
      [] iop = "from_secs" -> iself * 1000
      [] OTHER -> 0

\* C16: Instant arithmetic never wraps: the checked functions return the
\* exact result when it is a u32 and None otherwise, also when the Duration
\* alone exceeds u32 milliseconds; the operators and from_secs return the
\* exact result or panic.
C16_InstantNeverWraps ==
    iop # "none" =>
        IF InstantExact >= 0 /\ InstantExact < 2 ^ InstantBits
        THEN ires = InstantExact
        ELSE IF iop \in {"checked_add", "checked_sub", "checked_sub_instant", "checked_mul"}
             THEN ires = NoInstant
             ELSE ires = "panic"

\* C16 witness: checked_add of a Duration of more than u32::MAX milliseconds
\* returned None where the Duration's low bits alone would have fitted.
C16_Witness ==
    /\ iop = "checked_add"
    /\ idur \div 2 >= 2 ^ InstantBits
    /\ iself + ((idur \div 2) % (2 ^ InstantBits)) < 2 ^ InstantBits
    /\ ires = NoInstant

(* ------------------------------------------------------------------ *)
(* Properties of Context and ContextWrapper                             *)
(* ------------------------------------------------------------------ *)

\* the contexts made by Context::new_global, in replace
Globals == { c \in CtxIds : cparent[c] = None }

\* C17: of the contexts replace has returned, at most one is un-cancelled at
\* any moment; when replace hands out a new context, every context of an
\* earlier replace (one that held the wrapper's lock before) is cancelled;
\* and the previous context is cancelled, the slot empty, before the new one
\* is created and installed.
C17_OneLiveContext ==
    /\ Cardinality(creturned \ ccanc) <= 1
    /\ \A t \in CtxTasks :
          /\ rpc[t] = "new" => /\ Globals \subseteq ccanc
                               /\ cslot = None /\ wholder = t
                               /\ rold[t] # None => rold[t] \in ccanc
          /\ rpc[t] \in {"unlock", "ret"} =>
                \A c \in Globals : c < rnew[t] => c \in ccanc
          /\ rpc[t] = "unlock" => cslot = rnew[t] /\ Globals \ ccanc \subseteq {rnew[t]}

\* C17 witness: a second replace, by another task, has returned its context
\* while the first replace's context, returned before, is cancelled.
C17_Witness ==
    \E c, d \in creturned :
        /\ c < d /\ c \in ccanc /\ d \notin ccanc
        /\ \E t, u \in CtxTasks : t # u /\ rnew[t] = c /\ rnew[u] = d /\ rpc[u] = "idle"

\* C18: once no cancel() is still running, every child of a cancelled
\* context is cancelled (until then it is cancelled or next in the
\* recursion), also a child created while the cancel ran; a cancelled
\* context stays cancelled; cancel on a cancelled context changes nothing;
\* the pending done() event of a cancelled context has been notified.
C18_CancelReachesDescendants ==
    /\ [](\A c \in CtxIds : (cparent[c] \in CtxIds /\ cparent[c] \in ccanc) =>
             \/ c \in ccanc
             \/ \E t \in CtxTasks : c \in ctodo[t])
    /\ []((\A t \in CtxTasks : ctodo[t] = {}) =>
             \A c \in CtxIds : (cparent[c] \in CtxIds /\ cparent[c] \in ccanc) => c \in ccanc)
    /\ [][ccanc \subseteq ccanc']_vars
    /\ [][\A t \in CtxTasks : \A c \in ccanc :
             Context_cancel(t, c) => UNCHANGED << ccanc, cwoken, ctodo >>]_vars
    /\ [](cwait \cap ccanc \subseteq cwoken)

\* C18 witness: a chain of three contexts is cancelled from its root, the
\* recursion is over, and a done() event pending on the last one was
\* notified.
C18_Witness ==
    \E c \in CtxIds :
        /\ cparent[c] \in CtxIds /\ cparent[cparent[c]] \in CtxIds
        /\ {c, cparent[c], cparent[cparent[c]]} \subseteq ccanc
        /\ c \in cwoken
        /\ \A t \in CtxTasks : ctodo[t] = {}

(* ------------------------------------------------------------------ *)
(* select! with a cancellation branch                                   *)
(* ------------------------------------------------------------------ *)

\* the second branch is done() of a context cancelled before the select!
CancelledDoneBranch == sl[2] = done_sleep(TRUE)

C20_OneWakePerCatchUp ==
    /\ [](\A w \in Listeners :
            /\ blast[w] = "ok" /\ bmissed[w] = 0 => blocal[w] = bgen
            /\ blocal[w] = bgen <=> bmissed[w] = 0)
    /\ [][\A w \in Listeners :
            (bmissed'[w] = 0 /\ (bmissed[w] > 0 \/ blast'[w] # blast[w])) =>
                /\ bmissed[w] >= 1 =>
                      blast'[w] = "ok" /\ bgot'[w] = bgot[w] + 1 /\ blocal'[w] = bgen
                /\ bmissed[w] = 0 => blast'[w] = "pending" /\ bgot'[w] = bgot[w]
                /\ \A u \in Listeners \ {w} :
                      blocal'[u] = blocal[u] /\ bgot'[u] = bgot[u] /\ blast'[u] = blast[u]]_vars

\* C20 witness: the Broadcast was signalled three times while a listener did
\* not poll; the listener has since polled twice, with one success, and the
\* other listener has still to catch up.
C20_Witness ==
    \E w, u \in Listeners :
        /\ bgen = 3 /\ bgot[w] = 1 /\ blast[w] = "pending" /\ blocal[w] = 3
        /\ u # w /\ blocal[u] = 0 /\ bmissed[u] = 3

(* ------------------------------------------------------------------ *)
(* Properties of Promise                                                *)
(* ------------------------------------------------------------------ *)

\* C21: the first fulfill succeeds, every later one reports an error and
\* leaves the stored value alone; every waiter, early or late, resolves with
\* the value of the first call.
C21_FulfillOnce ==
    /\ pful = << >> => pvalue = None
    /\ pful # << >> => pful[1][2] = "ok" /\ pvalue = pful[1][1]
    /\ \A i \in 2 .. Len(pful) : pful[i][2] = "err"
    /\ \A w \in Waiters : ppc[w] = "got" => pful # << >> /\ pseen[w] = pful[1][1]

\* C21 witness: fulfill was called twice with different values; one task
\* that waited from before the first call and one that came after it have
\* both resolved.
C21_Witness ==
    /\ Len(pful) = 2 /\ pful[2][1] # pful[1][1] /\ pful[2][2] = "err"
    /\ \E w, u \in Waiters :
          /\ ppc[w] = "got" /\ pearly[w]
          /\ ppc[u] = "got" /\ ~pearly[u]

(* ------------------------------------------------------------------ *)
(* Properties of the constructors                                       *)
(* ------------------------------------------------------------------ *)

\* C22: when the creation of any of the three kernel objects fails,
\* try_channel returns an error and channel() panics, no channel exists and
\* the objects created before the failure are deleted; a channel that was
\* created has no value, parity false, no acknowledgment, empty registries.
C22_CreateAllOrNothing ==
    /\ [](kpc \in {"err", "panic"} =>
            /\ kfailat # None /\ klive = {} /\ kchan = << >>
            /\ kpc = "panic" <=> kvia = "channel")
    /\ [](kheap + kother + Cardinality(klive) = HeapSlots)
    /\ [](kpc = "ok" =>
            /\ klive = Created(3) /\ kfailat = None /\ Len(kchan) = 1
            /\ kchan[1].value = None /\ kchan[1].seq = FALSE /\ kchan[1].ack_sem = 0
            /\ kchan[1].send_event = {} /\ kchan[1].receive_event = {})
    /\ [](kpc = "create" => klive = Created(kstep - 1) /\ kchan = << >>)
    /\ [][(kpc = "create" /\ kheap = 0 /\ << kpc, kstep, klive >>' # << kpc, kstep, klive >>) =>
            /\ kpc' \in {"err", "panic"}
            /\ kheap' = kstep - 1]_vars

\* C22 witness: the semaphore could not be created after both mutexes were;
\* try_channel has returned the error and both mutexes are deleted again.
C22_Witness ==
    /\ kpc = "err" /\ kfailat = 3 /\ klive = {} /\ kheap = 2

(* ------------------------------------------------------------------ *)
(* Properties of the channel's acknowledgments and registries           *)
(* ------------------------------------------------------------------ *)

\* C23: when a sender holding the send mutex is about to publish, the
\* acknowledgment semaphore counts 0: the assertion of the send poll never
\* fails, whatever the senders and the polling, arriving and leaving
\* receivers do.
C23_NoStaleAck ==
    \A s \in Senders :
        /\ pc[s] # "panic"
        /\ pc[s] \in {"assert", "publish"} => ackSem = 0

\* C23 witness: a sender is about to publish after an earlier publish was
\* acknowledged and its value received, with a receiver registered since.
C23_Witness ==
    \E s \in Senders :
        /\ pc[s] = "publish" /\ ackSem = 0
        /\ Len(okSends) >= 1 /\ Len(received) >= 1
        /\ recvEvent # {}

\* a sender is between its publish and its final check
Publishing == \E s \in Senders : pc[s] = "ackwait"

\* C24: the n of a publish is the number of receive continuations registered
\* at that instant; each of them posts one acknowledgment for it, in its
\* next poll or in its destructor and never in both; a continuation created
\* after the publish posts none.
C24_OneAckPerRegistered ==
    /\ [](\A s \in Senders : pc[s] = "ackwait" =>
              need[s] = ackSem + Cardinality(Debtors))
    /\ [](~Publishing => ackSem = 0 /\ Debtors = {})
    /\ [][\A s \in Senders : (pc[s] = "publish" /\ pc'[s] = "ackwait") =>
              /\ need'[s] = Cardinality(recvEvent)
              /\ Debtors' = recvEvent]_vars
    /\ [][\A r \in Receivers : (pc[r] = "idle" /\ pc'[r] # "idle") =>
              r \in recvEvent' /\ r \notin Debtors']_vars
    /\ [][/\ Debtors' # Debtors /\ Publishing =>
              /\ Debtors' \subseteq Debtors
              /\ Cardinality(Debtors \ Debtors') = 1
              /\ ackSem' = ackSem + 1
          /\ ackSem' > ackSem => Debtors' # Debtors]_vars

\* C24 witness: a publish counted one registered continuation, which was
\* then dropped and posted in its destructor; a continuation created after
\* the publish has taken the value and has posted nothing.
C24_Witness ==
    \E s \in Senders : \E r, u \in Receivers :
        /\ pc[s] = "ackwait" /\ need[s] = 1 /\ ackSem = 1
        /\ r # u /\ pc[r] = "idle" /\ rounds[r] = 1
        /\ pc[u] = "got" /\ taker[s] = u /\ value = None

\* C25: the cell holds a value only between the publish of a sender that is
\* still in its send poll and the take of a receiver or of that sender; with
\* no send poll under way the cell is empty, and a receive poll succeeds
\* only while a send poll is under way.
C25_ValueOnlyDuringSendPoll ==
    /\ []((\A s \in Senders : pc[s] # "ackwait") => value = None)
    /\ [](value # None =>
            \E s \in Senders :
                /\ pc[s] = "ackwait" /\ sendMutex = s
                /\ value = ValueOf(s, sidx[s] + 1) /\ taker[s] = None)
    /\ [][Len(received') > Len(received) =>
            \E s \in Senders :
                /\ pc[s] = "ackwait" /\ pc'[s] = "ackwait"
                /\ value = ValueOf(s, sidx[s] + 1) /\ value' = None]_vars

\* C25 witness: a receiver that polled without being notified has taken the
\* value of a sender that is still waiting for an acknowledgment.
C25_Witness ==
    \E s \in Senders : \E r, u \in Receivers :
        /\ pc[s] = "ackwait" /\ need[s] = 1 /\ ackSem = 0
        /\ value = None /\ taker[s] = r /\ pc[r] = "got"
        /\ u \in Debtors /\ notif[r] = 0

\* C26 as stated: a receive poll that finds a value leaves the receive
\* registry and succeeds; one that finds none registers its task on the
\* send-side registry, stays in the receive registry and returns pending.
C26_PollRegistersOnSendSide ==
    [][\A r \in Receivers : (pc[r] = "poll" /\ pc'[r] \in {"got", "sleep"}) =>
          /\ pc'[r] = "got" <=> value # None
          /\ pc'[r] = "got" => r \notin recvEvent'
          /\ pc'[r] = "sleep" => r \in sendEvent' /\ r \in recvEvent']_vars

\* C26: a receive poll that finds a value leaves the receive registry and
\* succeeds; one that finds none notifies every task of the send-side
\* registry, changes neither registry (its task stays in the receive
\* registry and is not in the send-side one) and returns pending.
C26_PollNotifiesSendSide ==
    [][\A r \in Receivers : (pc[r] = "poll" /\ pc'[r] \in {"got", "sleep"}) =>
          /\ pc'[r] = "got" <=> value # None
          /\ pc'[r] = "got" =>
                r \in recvEvent /\ recvEvent' = recvEvent \ {r} /\ notif' = notif
          /\ pc'[r] = "sleep" =>
                /\ r \in recvEvent' /\ recvEvent' = recvEvent
                /\ sendEvent' = sendEvent /\ r \notin sendEvent'
                /\ \A t \in Tasks : notif'[t] =
                      IF t \in sendEvent THEN Min(notif[t] + 1, NotifyCap) ELSE notif[t]]_vars

\* C26 witness: a sender waiting for a receiver has been notified by the
\* poll of a receiver that found no value and is registered as before, while
\* the other receiver has taken the value and left the registry.
C26_Witness ==
    \E s \in Senders : \E r, u \in Receivers :
        /\ pc[s] = "wait" /\ notif[s] > 0 /\ s \in sendEvent
        /\ pc[r] = "sleep" /\ r \in recvEvent /\ sendEvent \cap Receivers = {}
        /\ pc[u] = "got" /\ u \notin recvEvent

Registry(side) == IF side = "recv" THEN recvEvent ELSE sendEvent

\* a step in which Event::notify is called on the registry of that side:
\* by the publish on the receive side, by a failed receive poll on the
\* send side
NotifyStep(side) ==
    IF side = "recv"
    THEN \E s \in Senders : pc[s] = "publish" /\ pc'[s] = "ackwait"
    ELSE \E r \in Receivers : pc[r] = "poll" /\ pc'[r] = "sleep"

\* C28: Event::notify raises the notification counter of every task that is
\* registered when it is called and of no other task; a task that registers
\* afterwards gets nothing from that call, and neither registering nor
\* dropping a handle changes a counter.
C28_NotifyRegisteredOnly ==
    /\ [][\A side \in {"recv", "send"} : NotifyStep(side) =>
            \A t \in Tasks : notif'[t] =
                IF t \in Registry(side) THEN Min(notif[t] + 1, NotifyCap) ELSE notif[t]]_vars
    /\ [][(recvEvent' # recvEvent \/ sendEvent' # sendEvent) => notif' = notif]_vars
    /\ [][\A t \in Tasks : notif'[t] > notif[t] =>
            \E side \in {"recv", "send"} : t \in Registry(side) /\ NotifyStep(side)]_vars

\* C28 witness: the publish has notified the receiver registered at the
\* time; a receiver that registered after it sleeps with a counter of 0.
C28_Witness ==
    \E s \in Senders : \E r, u \in Receivers :
        /\ pc[s] = "ackwait" /\ need[s] = 1
        /\ r \in Debtors /\ pc[r] = "sleep" /\ notif[r] = 1
        /\ u \in recvEvent /\ rseq[u] = seq /\ pc[u] = "sleep" /\ notif[u] = 0

\* C29 as stated: after Event::notify the registry is empty, and the count
\* of waiters read right after it is 0.
C29_NotifyEmptiesRegistry ==
    [][\A side \in {"recv", "send"} : NotifyStep(side) =>
          /\ task_count(Registry(side)') = 0
          /\ \A s \in Senders : pc[s] = "publish" => need'[s] = 0]_vars

\* C29: Event::notify leaves the registry as it is: the count read right
\* after it is the number of tasks it notified; a task leaves a registry
\* only when its own handle is cleared or dropped.
C29_NotifyKeepsRegistry ==
    /\ [][\A side \in {"recv", "send"} : NotifyStep(side) =>
            /\ Registry(side)' = Registry(side)
            /\ \A s \in Senders : (side = "recv" /\ pc[s] = "publish") =>
                  need'[s] = task_count(recvEvent)]_vars
    /\ [][\A t \in Tasks :
            (t \in recvEvent \cup sendEvent /\ t \notin recvEvent' \cup sendEvent') =>
                pc[t] \in {"sleep", "poll", "sent"} /\ pc'[t] \in {"got", "idle"}]_vars

\* C29 witness: the publish has notified both registered receivers, has
\* counted two, and both are registered still.
C29_Witness ==
    \E s \in Senders :
        /\ pc[s] = "ackwait" /\ need[s] = 2 /\ ackSem = 0
        /\ recvEvent = Receivers /\ Debtors = Receivers
        /\ \A r \in Receivers : notif[r] = 1

(* ------------------------------------------------------------------ *)
(* Properties of select_either / select_any!                            *)
(* ------------------------------------------------------------------ *)

\* the inner events of the combined event, in written order
Written == IF eshape = "either" THEN << 1, 2 >> ELSE << 1, 2, 3 >>

\* C30: every poll of the combined event polls its events in written order
\* and stops at the first that succeeds, whose result it returns; the events
\* after it are not polled; when all fail the new event holds all the
\* returned events; the sleep is the combine of the events' sleeps.
C30_EitherInOrder ==
    /\ [](/\ IsPrefix(eres.polled, Written)
          /\ eres.ok =>
                /\ erdy[eres.r]
                /\ eres.polled = SubSeq(Written, 1, eres.r)
                /\ \A j \in 1 .. eres.r - 1 : ~erdy[j]
          /\ (~eres.ok /\ eattempts > 0) =>
                /\ eres.polled = Written /\ eres.cont = Written
                /\ \A j \in 1 .. Len(Written) : ~erdy[j])
    /\ [][eattempts' = eattempts + 1 =>
            \A i \in Events : etaken'[i] =
                IF eres'.ok /\ eres'.r = i THEN etaken[i] + 1 ELSE etaken[i]]_vars
    /\ [][esleep' # esleep =>
            esleep' = IF eshape = "either"
                      THEN combine(esl[1], esl[2])
                      ELSE combine(esl[1], combine(esl[2], esl[3]))]_vars

\* C30 witness: of three events the second and the third were ready; the
\* poll returned the second's result and did not poll the third.
C30_Witness ==
    /\ eshape = "any" /\ eres.ok /\ eres.r = 2
    /\ ~erdy[1] /\ erdy[2] /\ erdy[3]
    /\ eres.polled = << 1, 2 >> /\ etaken[3] = 0 /\ eready[3]

(* ------------------------------------------------------------------ *)
(* Properties of select_map                                             *)
(* ------------------------------------------------------------------ *)

\* C31: select_map calls f once, and only in the poll in which the inner
\* event's poll succeeds, and returns what f returns; a poll in which the
\* inner poll fails calls nothing and returns a mapped event of the inner
\* continuation and the same f; the sleep is the inner event's sleep.
C31_MapAppliesOnce ==
    /\ [](/\ mfcalls <= 1
          /\ mfcalls = 1 <=> mres.ok
          /\ mres.ok => ~mlive /\ mres.r = apply(mfn, minner.val) /\ mres.cont = << >>
          /\ (mpolls > 0 /\ ~mres.ok) =>
                /\ mlive /\ mfcalls = 0
                /\ mres.cont = << [event |-> continuation(minner), f |-> mfn] >>)
    /\ [][mpolls' = mpolls + 1 =>
            /\ mres'.ok <=> minner.ready
            /\ mfcalls' = mfcalls + (IF minner.ready THEN 1 ELSE 0)]_vars
    /\ [][msleep' # msleep => msleep' = minner.sl]_vars

\* C31 witness: the first poll failed, the inner event then became ready,
\* and the second poll called f, for the only time, on the inner result.
C31_Witness ==
    /\ mpolls = 2 /\ mres.ok /\ mfcalls = 1
    /\ mfn = "double" /\ minner.val = 2 /\ mres.r = 4

(* ------------------------------------------------------------------ *)
(* Properties of Queue                                                  *)
(* ------------------------------------------------------------------ *)

\* the calling task's append or prepend returns in this step
SendReturns == qpc = "kernel" /\ qpc' = "idle" /\ qop \in {"prepend", "append"}

\* C32: append and prepend on a queue without a free slot return Err with
\* the item that was passed and leave the queue as it is; they return Ok
\* only when the item went into the queue, at the end asked for.
C32_QueueFullReturnsItem ==
    [][SendReturns =>
          /\ qres'.kind \in {"ok", "err"}
          /\ qres'.kind = "err" =>
                qres'.val = qitem /\ qitems' = qitems /\ Len(qitems) = QueueLen
          /\ qres'.kind = "ok" =>
                /\ Len(qitems) < QueueLen
                /\ qitems' = IF qop = "append" THEN Append(qitems, qitem)
                                               ELSE << qitem >> \o qitems]_vars

\* C32 witness: prepend on a full queue has returned the item after its
\* wait, and the queue holds what it held.
C32_Witness ==
    /\ qpc = "idle" /\ qop = "prepend" /\ qres.kind = "err" /\ qres.val = qitem
    /\ qitem = 1 /\ qitems = << 2, 2 >> /\ qT = 2000 /\ qres.at = qstart + 2

\* C33: an operation that reports failure has waited for the whole timeout
\* it was given: with a timeout of T milliseconds it does not fail before T
\* milliseconds have passed since the call.
C33_WaitsWholeTimeout ==
    (qpc = "idle" /\ qcalls > 0 /\ qres.kind \in {"err", "none"}) =>
        qres.at - qstart >= qT

(* ------------------------------------------------------------------ *)
(* Properties of select!, continued                                     *)
(* ------------------------------------------------------------------ *)

\* C34: in a poll pass of select! the poll that succeeds is the last one
\* of the pass: it consumes its own event only, no branch is polled after
\* it, and the select! runs one body; the events of the other branches are
\* left as they are.
C34_OneEventPerSelect ==
    /\ [](Cardinality({ i \in Branches : passRes[i] = "ok" }) <= 1)
    /\ [](selpc \in {"body", "done"} =>
            /\ passRes[chosen] = "ok"
            /\ \A i \in Branches : i > chosen => passRes[i] = "none")
    /\ [](selpc = "done" => ran[chosen] = 1 /\ \A i \in Branches \ {chosen} : ran[i] = 0)
    /\ [][(selpc = "match" /\ chosen' # chosen) =>
            /\ selpc' = "body"
            /\ \A i \in Branches \ {chosen'} : flag'[i] = flag[i]]_vars
    /\ [][(selpc \in {"body", "done"}) => (flag' = flag /\ passRes' = passRes)]_vars

\* C34 witness: both branches are receives with a value pending; the
\* select! has run the first branch's body, and the value of the second
\* branch's channel is still there.
C34_Witness ==
    /\ selpc = "done" /\ chosen = 1 /\ ran[1] = 1
    /\ HasReceive(1) /\ HasReceive(2)
    /\ ~flag[1] /\ flag[2] /\ passRes[2] = "none"

(* ------------------------------------------------------------------ *)
(* Properties of the channel: termination of the acknowledgment wait    *)
(* ------------------------------------------------------------------ *)

\* C35: a send poll that waits for the acknowledgments of the receivers it
\* notified comes to its final check, if the tasks of those receivers run:
\* while it waits it holds the send mutex only, every receiver that owes an
\* acknowledgment can take its next step without that mutex, the poll does
\* not panic, and the wait ends.
C35_AckWaitReturns ==
    /\ [](\A s \in Senders : pc[s] # "panic")
    /\ [](\A s \in Senders :
            (pc[s] = "ackwait" /\ need[s] > ackSem) =>
                /\ sendMutex = s
                /\ Debtors # {}
                /\ \A r \in Debtors : ENABLED ReceiverStep(r))
    /\ \A s \in Senders :
          (pc[s] = "ackwait" /\ need[s] > 0) ~> (pc[s] = "ackwait" /\ need[s] = 0)
    /\ \A s \in Senders : (pc[s] = "ackwait") ~> (pc[s] \in {"sent", "sleep"})

\* C35 witness: a sender that needed an acknowledgment has collected it
\* from the receiver that took its value and is at its final check.
C35_Witness ==
    \E s \in Senders : \E r \in Receivers :
        /\ pc[s] = "ackwait" /\ need[s] = 0 /\ ackSem = 0
        /\ sendMutex = s /\ value = None
        /\ taker[s] = r /\ pc[r] = "got" /\ rseq[r] = seq

(* ------------------------------------------------------------------ *)
(* Properties of Loop                                                   *)
(* ------------------------------------------------------------------ *)

\* C36: the poll of Loop::next's event succeeds exactly when the clock is at
\* or past last_time + delta; a success advances last_time by delta and a
\* failure leaves it; last_time is the start plus one delta for each
\* success; the sleep deadline is last_time + delta; no poll or sleep
\* fails.
C36_LoopPeriodic ==
    /\ lpolls > 0 =>
          /\ lres = "ok" <=> lobs.now >= lobs.last + delta
          /\ lres = "ok" => last_time = lobs.last + delta
          /\ lres # "ok" => lres = "err" /\ last_time = lobs.last
    /\ llive => last_time = lstart + lsucc * delta
    /\ lsleep # << >> => lsleep[1] = last_time + delta
    /\ ~lpanic

\* C36 where the sum fits: while last_time + delta stays within the u32,
\* the poll and the sleep behave as C36 says, and nothing but the overflow
\* makes them fail.
LoopPeriodicWithinU32 ==
    /\ (lpolls > 0 /\ ~overflows(lobs.last, delta)) =>
          /\ lres = "ok" <=> lobs.now >= lobs.last + delta
          /\ lres = "ok" => last_time = lobs.last + delta
          /\ lres # "ok" => lres = "err" /\ last_time = lobs.last
    /\ (llive /\ lstart + lsucc * delta < LoopWidth) =>
          last_time = lstart + lsucc * delta
    /\ (lsleep # << >> /\ ~overflows(last_time, delta)) =>
          lsleep[1] = last_time + delta
    /\ lpanic =>
          lchecks /\ overflows(last_time, delta)

\* a late wake-up: two periods were missed and one poll caught up one
LoopCaughtUpOne ==
    /\ llive /\ delta = 2 /\ lsucc = 1 /\ lres = "ok"
    /\ last_time = lstart + delta
    /\ lmillis >= last_time + 2 * delta

====
